---- MODULE Spec2Model ----
(***************************************************************************)
(* hermesx: the compatibility shim (hermes-globals.js) that is installed   *)
(* before user code on the Hermes engine.  The model covers the interval   *)
(* polyfill built on the host's one-shot setTimeout, the console timers,   *)
(* the performance marks and the print channel.                            *)
(*                                                                         *)
(* The host is single threaded and runs every callback to completion.      *)
(* The body of repeat() is split at the call of the user callback, which   *)
(* is arbitrary user code: RepeatBegin is repeat() up to the call,         *)
(* CallbackReturn / CallbackThrow are repeat() from the call's outcome to  *)
(* the end.  While a callback runs (running # 0) the host fires nothing.   *)
(***************************************************************************)
EXTENDS Integers, Sequences, FiniteSets, TLC

VARIABLES
    _intervalId,        \* globalThis._intervalId: next handle to hand out
    _intervals,         \* globalThis._intervals: the keys of the registry Map
    active,             \* handle -> the closure variable `active` of its setInterval call
    closure,            \* handle -> the callback and delay captured by its setInterval call
    timeouts,           \* the host's pending one-shots created by setTimeout(repeat, delay)
    calls,              \* handle -> number of invocations of the user callback so far
    count,              \* handle -> the variable `count` of the test script's callback
    running,            \* handle whose user callback is executing, 0 when none is
    pc,                 \* position inside the executing user callback
    out,                \* the lines written through print(), oldest first
    _timers,            \* globalThis._timers: label key -> start reading
    _performanceMarks,  \* globalThis._performanceMarks: mark name -> reading
    now,                \* the reading Date.now() returns
    returned,           \* the handles returned by the setInterval calls, in call order
    uncaught,           \* the values thrown out of a host callback or the main script, uncaught
    result,             \* the value returned to user code by its latest console, performance
                        \* or benchmark call
    bench,              \* the local variables of the benchmark call in progress
    process,            \* globalThis.process inside the engine: its argv and env
    cli                 \* the run of the hermesx command: its command line and
                        \* environment, its position in runWithHermes, the files on
                        \* disk, the engine process and the exit codes

processVars == <<process>>

cliVars == <<cli>>

processArgv == process.argv       \* globalThis.process.argv
processEnv == process.env         \* globalThis.process.env
cliPc == cli.pc                   \* position of the hermesx process in runWithHermes
file == cli.file                  \* the <file> argument of hermesx
scriptArgs == cli.scriptArgs      \* the [args...] arguments of hermesx
hostEnv == cli.hostEnv            \* process.env of the hermesx process
sourceFiles == cli.sourceFiles    \* the paths at which a source file exists
engineEnv == cli.engineEnv        \* the operating-system environment of the engine process
userScript == cli.userScript      \* what the user's script does at its top level
bundlePath == cli.bundlePath      \* the variable bundlePath of runWithHermes
tmpFiles == cli.tmpFiles          \* the temporary bundle files that exist, with their content
enginePc == cli.enginePc          \* position of the engine in the evaluation of the bundle
engineExit == cli.engineExit      \* exit code of the engine process
exitCode == cli.exitCode          \* exit code of the hermesx process
stderr == cli.stderr              \* the lines hermesx wrote with console.error
platform == cli.platform          \* process.platform of the hermesx process
cacheFiles == cli.cacheFiles      \* the files that exist in ~/.cache/hermesx/binaries
hermesBinaryPath == cli.hermesBinaryPath   \* the const hermesBinaryPath of runWithHermes
downloads == cli.downloads        \* the calls of downloadOfficialBinary so far, over all runs
runs == cli.runs                  \* the runs of hermesx started so far on this machine

(* what lies outside the timers, the intervals and the output channel *)
outerVars == <<bench, processVars, cliVars>>

vars == <<_intervalId, _intervals, active, closure, timeouts, calls, count,
          running, pc, out, _timers, _performanceMarks, now, returned, uncaught,
          result, outerVars>>

intervalVars == <<_intervalId, _intervals, active, closure, timeouts, calls, count,
                  returned, uncaught>>

----------------------------------------------------------------------------
(* Bounds of the model *)

MaxHandles == 2
MaxCalls == 2
MaxClock == 2
MaxOut == 2
MaxLimit == 3
MaxIterations == 3
MaxNameLen == 2
MaxArgs == 2

(* runs of hermesx on one machine, one after the other *)
MaxRuns == 3

Delays == {0, 1}

(* The iteration at which the test script cancels its own interval *)
TestLimit == 3

----------------------------------------------------------------------------
(* JavaScript values that reach the shim *)

Undefined == [t |-> "undefined"]
Null == [t |-> "null"]
Str(s) == [t |-> "string", v |-> s]
Num(n) == [t |-> "number", v |-> n]
Bool(b) == [t |-> "boolean", v |-> b]
Func(name) == [t |-> "function", name |-> name]
ErrorObject(msg) == [t |-> "error", message |-> msg]

(* x || "default" for a label x *)
Truthy(x) ==
    CASE x.t = "string" -> x.v # ""
      [] x.t = "number" -> x.v # 0
      [] x.t = "boolean" -> x.v
      [] x.t \in {"undefined", "null"} -> FALSE
      [] OTHER -> TRUE

(* a label test that takes only a missing label for the default one, so    *)
(* that the empty string is a label of its own                             *)
Key_emptyStringIsLabel(label) == IF label.t = "string" THEN label.v ELSE "default"

Key(label) == IF Truthy(label) THEN label.v ELSE "default"

Labels == {Undefined, Str("t")}

(* Map.set, Map.delete on a Map held as a function on its key set *)
MapSet(m, k, v) == [x \in (DOMAIN m) \cup {k} |-> IF x = k THEN v ELSE m[x]]
MapDelete(m, k) == [x \in (DOMAIN m) \ {k} |-> m[x]]
EmptyMap == [x \in {} |-> 0]

----------------------------------------------------------------------------
(* formatConsoleArgs *)

(* an object with its own enumerable properties in insertion order, each a *)
(* pair <<key, value>>; an array with its items; and, inside one of them,  *)
(* a reference back to an object that encloses it: a circular structure    *)
Obj(props) == [t |-> "object", props |-> props]
Arr(items) == [t |-> "array", v |-> items]
Ref == [t |-> "ref"]

RECURSIVE JoinWith(_, _)
JoinWith(strs, sep) ==
    IF Len(strs) = 0 THEN ""
    ELSE IF Len(strs) = 1 THEN strs[1]
    ELSE strs[1] \o sep \o JoinWith(Tail(strs), sep)

(* JSON.stringify meets an object it is already inside of and throws a     *)
(* TypeError                                                               *)
RECURSIVE StringifyThrows(_)
StringifyThrows(value) ==
    CASE value.t = "ref" -> TRUE
      [] value.t = "object" ->
            \E i \in 1..Len(value.props) : StringifyThrows(value.props[i][2])
      [] value.t = "array" -> \E i \in 1..Len(value.v) : StringifyThrows(value.v[i])
      [] OTHER -> FALSE

(* what JSON.stringify leaves out of an object and writes as null in an    *)
(* array                                                                   *)
NotSerializable(value) == value.t \in {"undefined", "function"}

(* JSON.stringify(value, null, 2): the gap is two spaces *)
Gap == "  "

(* JSON.stringify(value, null, 2) of a value that is not circular, at the  *)
(* current indentation: members go on lines of their own, one gap deeper;  *)
(* the strings of the model hold no character that JSON escapes            *)
RECURSIVE JsonStringify(_, _)
JsonStringify(value, indent) ==
    LET inner == indent \o Gap IN
    CASE value.t = "null" -> "null"
      [] value.t = "string" -> "\"" \o value.v \o "\""
      [] value.t = "number" -> ToString(value.v)
      [] value.t = "boolean" -> (IF value.v THEN "true" ELSE "false")
      [] value.t = "error" -> "{}"
      [] value.t = "object" ->
            LET kept == SelectSeq(value.props, LAMBDA p : ~NotSerializable(p[2])) IN
            IF kept = <<>> THEN "{}"
            ELSE "{\n"
                   \o JoinWith([i \in 1..Len(kept) |->
                                  inner \o "\"" \o kept[i][1] \o "\": "
                                        \o JsonStringify(kept[i][2], inner)], ",\n")
                   \o "\n" \o indent \o "}"
      [] value.t = "array" ->
            IF value.v = <<>> THEN "[]"
            ELSE "[\n"
                   \o JoinWith([i \in 1..Len(value.v) |->
                                  inner \o (IF NotSerializable(value.v[i]) THEN "null"
                                            ELSE JsonStringify(value.v[i], inner))], ",\n")
                   \o "\n" \o indent \o "]"

(* a formatter without the try/catch around JSON.stringify *)
StringifyCaught_missing(arg) == FALSE

(* try { return JSON.stringify(arg, null, 2) } catch (e) { ... }: the      *)
(* catch clause takes whatever JSON.stringify throws                       *)
StringifyCaught(arg) == TRUE

(* the branch typeof arg === "object" *)
FormatObject(arg) ==
    IF StringifyThrows(arg) THEN "[object Object]" ELSE JsonStringify(arg, "")

(* a formatter that prints strings as quoted literals *)
FormatString_quoted(s) == "\"" \o s \o "\""

(* if (typeof arg === "string") return arg *)
FormatString(s) == s

FormatArg(arg) ==
    CASE arg.t = "null" -> "null"
      [] arg.t = "undefined" -> "undefined"
      [] arg.t = "string" -> FormatString(arg.v)
      [] arg.t = "number" -> ToString(arg.v)
      [] arg.t = "boolean" -> (IF arg.v THEN "true" ELSE "false")
      [] arg.t = "function" ->
            "[Function: " \o (IF arg.name # "" THEN arg.name ELSE "anonymous") \o "]"
      [] arg.t = "error" -> "{}"
      [] arg.t \in {"object", "array"} -> FormatObject(arg)

RECURSIVE JoinSpace(_)
JoinSpace(strs) ==
    IF Len(strs) = 0 THEN ""
    ELSE IF Len(strs) = 1 THEN strs[1]
    ELSE strs[1] \o " " \o JoinSpace(Tail(strs))

formatConsoleArgs(args) == JoinSpace([i \in 1..Len(args) |-> FormatArg(args[i])])

(* the host's print primitive: one line appended to the output channel *)
print(o, line) == Append(o, line)

ConsoleLogLine(args) == formatConsoleArgs(args)
(* console.error without its prefix *)
ConsoleErrorLine_noPrefix(args) == formatConsoleArgs(args)

ConsoleErrorLine(args) == "ERROR: " \o formatConsoleArgs(args)

(* console.warn with the prefix of console.error *)
ConsoleWarnLine_errorPrefix(args) == "ERROR: " \o formatConsoleArgs(args)

ConsoleWarnLine(args) == "WARN: " \o formatConsoleArgs(args)

(* the TypeError of JSON.stringify on a circular structure *)
CircularError == ErrorObject("Converting circular structure to JSON")

(* formatConsoleArgs(...args) throws: an argument makes JSON.stringify     *)
(* throw and nothing catches it                                            *)
FormatRaises(args) ==
    \E i \in 1..Len(args) :
       args[i].t \in {"object", "array"} /\ StringifyThrows(args[i]) /\ ~StringifyCaught(args[i])

----------------------------------------------------------------------------
(* a string whose characters matter is the sequence of its characters *)
Hermes == <<"h", "e", "r", "m", "e", "s">>

ScriptJs == <<"s", "c", "r", "i", "p", "t", ".", "j", "s">>

(* no benchmark call is in progress *)
BenchIdle == [pc |-> "none", name |-> "", iterations |-> 0, start |-> 0, results |-> <<>>]

(* no user script has been handed to the engine *)
NoScript == [kind |-> "none", code |-> Undefined]

(* the process in question has not exited *)
NotExited == -1

Init ==
    /\ _intervalId = 1
    /\ _intervals = {}
    /\ active = EmptyMap
    /\ closure = EmptyMap
    /\ timeouts = <<>>
    /\ calls = EmptyMap
    /\ count = EmptyMap
    /\ running = 0
    /\ pc = "none"
    /\ out = <<>>
    /\ _timers = EmptyMap
    /\ _performanceMarks = EmptyMap
    /\ now = 0
    /\ returned = <<>>
    /\ uncaught = {}
    /\ result = Undefined
    /\ bench = BenchIdle
    /\ process = [argv |-> <<Hermes, ScriptJs>>, env |-> EmptyMap]
    /\ cli = [pc |-> "idle", file |-> <<>>, scriptArgs |-> <<>>, hostEnv |-> EmptyMap,
              sourceFiles |-> {}, engineEnv |-> EmptyMap, userScript |-> NoScript,
              bundlePath |-> "none", tmpFiles |-> EmptyMap, enginePc |-> "none",
              engineExit |-> NotExited, exitCode |-> NotExited, stderr |-> <<>>,
              platform |-> "linux", cacheFiles |-> {}, hermesBinaryPath |-> "none",
              downloads |-> 0, runs |-> 0]

(* an exception nobody caught ended the script: the engine runs nothing more *)
Halted == uncaught # {}

(* a benchmark call is on the stack, inside its callback *)
InBenchmark == bench.pc # "none"

(* user code is free to call into the shim: outside every interval         *)
(* callback, or inside a callback whose body is unconstrained              *)
UserCode == ~Halted /\ (running = 0 \/ pc = "free")

(* the wall clock advances *)
Tick ==
    /\ now < MaxClock
    /\ now' = now + 1
    /\ UNCHANGED <<intervalVars, running, pc, out, _timers, _performanceMarks>>
    /\ UNCHANGED <<result, outerVars>>

----------------------------------------------------------------------------
(* console.time / console.timeEnd / console.timeLog *)

TimeEndLine(key, startTime, t) == key \o ": " \o ToString(t - startTime) \o "ms"
TimeLogLine(key, startTime, t, data) ==
    key \o ": " \o ToString(t - startTime) \o "ms"
        \o (IF Len(data) > 0 THEN " " \o JoinSpace(data) ELSE "")
(* the missing-label report sent through console.error *)
NoTimerLine_viaConsoleError(key) == "ERROR: Timer '" \o key \o "' does not exist"

NoTimerLine(key) == "Timer '" \o key \o "' does not exist"

(* console.time that leaves a running label's start instant alone *)
TimersAfterTime_keepsFirst(m, key, t) == IF key \in DOMAIN m THEN m ELSE MapSet(m, key, t)

TimersAfterTime(m, key, t) == MapSet(m, key, t)

ConsoleTime(label) ==
    /\ UserCode
    /\ _timers' = TimersAfterTime(_timers, Key(label), now)
    /\ UNCHANGED <<intervalVars, running, pc, out, _performanceMarks, now>>
    /\ result' = Undefined
    /\ UNCHANGED outerVars

(* timeEnd that reports but does not delete the label *)
TimersAfterTimeEnd_keepsLabel(m, key) == m

TimersAfterTimeEnd(m, key) == IF key \in DOMAIN m THEN MapDelete(m, key) ELSE m

ConsoleTimeEnd(label) ==
    /\ UserCode
    /\ Len(out) < MaxOut
    /\ LET key == Key(label) IN
         /\ out' = IF key \in DOMAIN _timers
                   THEN print(out, TimeEndLine(key, _timers[key], now))
                   ELSE print(out, NoTimerLine(key))
         /\ _timers' = TimersAfterTimeEnd(_timers, key)
    /\ UNCHANGED <<intervalVars, running, pc, _performanceMarks, now>>
    /\ result' = Undefined
    /\ UNCHANGED outerVars

(* timeLog that ends the timer it reads, as timeEnd does *)
TimersAfterTimeLog_deletes(m, key) == IF key \in DOMAIN m THEN MapDelete(m, key) ELSE m

TimersAfterTimeLog(m, key) == m

ConsoleTimeLog(label, data) ==
    /\ UserCode
    /\ Len(out) < MaxOut
    /\ LET key == Key(label) IN
         /\ out' = IF key \in DOMAIN _timers
                   THEN print(out, TimeLogLine(key, _timers[key], now, data))
                   ELSE print(out, NoTimerLine(key))
         /\ _timers' = TimersAfterTimeLog(_timers, key)
    /\ UNCHANGED <<intervalVars, running, pc, _performanceMarks, now>>
    /\ result' = Undefined
    /\ UNCHANGED outerVars

(* performance.mark *)
MarkNames == {"start"}

PerformanceMark(name) ==
    /\ UserCode
    /\ _performanceMarks' = MapSet(_performanceMarks, name, now)
    /\ UNCHANGED <<intervalVars, running, pc, out, _timers, now>>
    /\ result' = Undefined
    /\ UNCHANGED outerVars

(* performance.measure *)

(* the mark names of the measuring scripts, and a name they never mark *)
MeasureMarks == {"start", "end"}

MarkRefs == MeasureMarks \cup {"missing"}

MeasureNames == {"m"}

(* measure taking the current reading for its end, whatever the end mark holds *)
MeasureDuration_untilNow(start, end, t) == t - start

MeasureDuration(start, end, t) == end - start

(* the object measure returns *)
MeasureEntry(name, duration, start) ==
    [t |-> "object", name |-> name, duration |-> duration, startTime |-> start,
     entryType |-> "measure", detail |-> Null]

MeasureLine(name, duration) == ConsoleLogLine(<<Str(name \o ": " \o ToString(duration) \o "ms")>>)

(* the missing-mark report written with print, as the timers write theirs *)
MarksNotFoundLine_plainPrint(startMark, endMark) ==
    "Performance marks '" \o startMark \o "' or '" \o endMark \o "' not found"

MarksNotFoundLine(startMark, endMark) ==
    ConsoleErrorLine(<<Str("Performance marks '" \o startMark \o "' or '" \o endMark
                           \o "' not found")>>)

(* measure that uses up the two marks it reads *)
MarksAfterMeasure_consumes(m, startMark, endMark) ==
    [n \in DOMAIN m \ {startMark, endMark} |-> m[n]]

MarksAfterMeasure(m, startMark, endMark) == m

PerformanceMeasure(name, startMark, endMark) ==
    /\ UserCode
    /\ Len(out) < MaxOut
    /\ IF startMark \in DOMAIN _performanceMarks /\ endMark \in DOMAIN _performanceMarks
       THEN LET start == _performanceMarks[startMark]
                end == _performanceMarks[endMark]
                duration == MeasureDuration(start, end, now)
            IN  /\ out' = print(out, MeasureLine(name, duration))
                /\ result' = MeasureEntry(name, duration, start)
       ELSE /\ out' = print(out, MarksNotFoundLine(startMark, endMark))
            /\ result' = Null
    /\ _performanceMarks' = MarksAfterMeasure(_performanceMarks, startMark, endMark)
    /\ UNCHANGED <<intervalVars, running, pc, _timers, now>>
    /\ UNCHANGED outerVars

(* performance.getEntries / getEntriesByType / getEntriesByName *)
EmptyArray == [t |-> "array", v |-> <<>>]

EntryTypes == {"measure", "mark"}

PerformanceGetEntries ==
    /\ UserCode
    /\ result' = EmptyArray
    /\ UNCHANGED <<intervalVars, running, pc, out, _timers, _performanceMarks, now>>
    /\ UNCHANGED outerVars

(* getEntriesByType that lists the marks recorded so far *)
getEntriesByType_fromMarks(type) ==
    [t |-> "array",
     v |-> IF type = "mark" /\ "start" \in DOMAIN _performanceMarks
           THEN <<Str("start")>> ELSE <<>>]

(* getEntriesByType: function (type) { return []; } *)
getEntriesByType(type) == EmptyArray

PerformanceGetEntriesByType(type) ==
    /\ UserCode
    /\ result' = getEntriesByType(type)
    /\ UNCHANGED <<intervalVars, running, pc, out, _timers, _performanceMarks, now>>
    /\ UNCHANGED outerVars

PerformanceGetEntriesByName(name) ==
    /\ UserCode
    /\ result' = EmptyArray
    /\ UNCHANGED <<intervalVars, running, pc, out, _timers, _performanceMarks, now>>
    /\ UNCHANGED outerVars

----------------------------------------------------------------------------
(* benchmark *)

BenchNames == {"b", "Math operations"}

(* the iterations argument: omitted, or a count *)
IterationArgs == {Undefined} \cup {Num(n) : n \in 1..MaxIterations}

(* an iteration count with one warm-up call on top of the requested ones *)
BenchIterations_extraWarmUp(arg) == (IF arg.t = "undefined" THEN 1 ELSE arg.v) + 1

(* iterations = 1, the default of the parameter *)
BenchIterations(arg) == IF arg.t = "undefined" THEN 1 ELSE arg.v

(* results.reduce((sum, time) => sum + time, 0) *)
RECURSIVE BenchReduce(_, _)
BenchReduce(results, sum) ==
    IF results = <<>> THEN sum ELSE BenchReduce(Tail(results), sum + Head(results))

BenchTotal(results) == BenchReduce(results, 0)

RECURSIVE Gcd(_, _)
Gcd(a, b) == IF b = 0 THEN a ELSE Gcd(b, a % b)

(* the number n / d, d > 0, n >= 0, in lowest terms *)
Ratio(n, d) == LET g == Gcd(n, d) IN [num |-> n \div g, den |-> d \div g]

(* the average rounded to a whole number of milliseconds *)
BenchAverage_rounded(total, iterations) == Ratio((2 * total + iterations) \div (2 * iterations), 1)

BenchAverage(total, iterations) == Ratio(total, iterations)

(* a minimum folded from an initial 0 instead of spread over the results *)
MathMin_seededWithZero(results) == 0

MathMin(results) == CHOOSE x \in {results[i] : i \in 1..Len(results)} :
                        \A i \in 1..Len(results) : x <= results[i]

MathMax(results) == CHOOSE x \in {results[i] : i \in 1..Len(results)} :
                        \A i \in 1..Len(results) : x >= results[i]

(* q.toFixed(2) for q >= 0 *)
ToFixed2(q) ==
    LET h == (200 * q.num + q.den) \div (2 * q.den)
        cents == h % 100
    IN  ToString(h \div 100) \o "." \o (IF cents < 10 THEN "0" ELSE "") \o ToString(cents)

(* the object benchmark returns *)
BenchResult(name, iterations, results) ==
    LET total == BenchTotal(results) IN
    [t |-> "object", name |-> name, iterations |-> iterations, total |-> total,
     average |-> BenchAverage(total, iterations), min |-> MathMin(results),
     max |-> MathMax(results), results |-> results]

(* the six console.log calls of the report *)
BenchReport(r) ==
    << ConsoleLogLine(<<Str("Benchmark: " \o r.name)>>),
       ConsoleLogLine(<<Str("  Iterations: " \o ToString(r.iterations))>>),
       ConsoleLogLine(<<Str("  Total: " \o ToString(r.total) \o "ms")>>),
       ConsoleLogLine(<<Str("  Average: " \o ToFixed2(r.average) \o "ms")>>),
       ConsoleLogLine(<<Str("  Min: " \o ToString(r.min) \o "ms")>>),
       ConsoleLogLine(<<Str("  Max: " \o ToString(r.max) \o "ms")>>) >>

(* benchmark(name, fn, iterations) up to its first call of fn *)
BenchmarkBegin(name, iterationsArg) ==
    /\ UserCode
    /\ ~InBenchmark
    /\ Len(out) < MaxOut
    /\ BenchIterations(iterationsArg) >= 1
    /\ bench' = [pc |-> "fn", name |-> name, iterations |-> BenchIterations(iterationsArg),
                 start |-> now, results |-> <<>>]
    /\ UNCHANGED <<intervalVars, running, pc, out, _timers, _performanceMarks, now, result>>
    /\ UNCHANGED <<processVars, cliVars>>

(* fn returns: the iteration's duration is pushed, and either the next     *)
(* iteration calls fn or the loop ends, the report is printed and the      *)
(* result returned                                                         *)
BenchFnReturn ==
    /\ InBenchmark
    /\ ~Halted
    /\ LET results == Append(bench.results, now - bench.start) IN
         IF Len(results) < bench.iterations
         THEN /\ bench' = [bench EXCEPT !.start = now, !.results = results]
              /\ UNCHANGED <<out, result>>
         ELSE LET r == BenchResult(bench.name, bench.iterations, results) IN
                /\ out' = out \o BenchReport(r)
                /\ result' = r
                /\ bench' = BenchIdle
    /\ UNCHANGED <<intervalVars, running, pc, _timers, _performanceMarks, now>>
    /\ UNCHANGED <<processVars, cliVars>>

(* a benchmark loop that traps what fn throws and goes on *)
BenchCatches_trapsAndContinues(e) == TRUE

(* the loop body calls fn() outside any try statement *)
BenchCatches(e) == FALSE

(* the values a benchmark callback throws *)
BenchThrown == {ErrorObject("boom")}

(* fn throws e: the call of benchmark ends there and e reaches its caller,  *)
(* the main script, where nothing catches it                                *)
BenchFnThrow(e) ==
    /\ InBenchmark
    /\ ~Halted
    /\ running = 0
    /\ IF BenchCatches(e)
       THEN BenchFnReturn
       ELSE /\ bench' = BenchIdle
            /\ uncaught' = uncaught \cup {e}
            /\ UNCHANGED <<_intervalId, _intervals, active, closure, timeouts, calls,
                           count, returned>>
            /\ UNCHANGED <<running, pc, out, _timers, _performanceMarks, now, result>>
            /\ UNCHANGED <<processVars, cliVars>>

----------------------------------------------------------------------------
(* setInterval / clearInterval on top of the host's one-shot setTimeout *)

(* user callbacks: the callback of the interval test script, which cancels *)
(* its own interval once its counter reaches limit, or an unconstrained one *)
TestCallback(k) == [kind |-> "test", limit |-> k]
FreeCallback == [kind |-> "free", limit |-> 0]

(* an unconstrained callback whose invocations are not counted, for        *)
(* intervals that are followed without end                                 *)
LiveCallback == [kind |-> "live", limit |-> 0]

(* whether the invocations of a callback are counted in calls *)
Counted(callback) == callback.kind # "live"

(* values a callback may throw *)
Thrown == {ErrorObject("boom")}

(* host setTimeout(repeat, delay) for the repeat closure of handle id: the  *)
(* one-shot may fire once the clock has reached due; the host keeps its    *)
(* pending one-shots by due time, those of equal due time in the order of  *)
(* their creation                                                          *)
setTimeout(q, id, delay, t) ==
    LET entry == [id |-> id, delay |-> delay, due |-> t + delay]
        before == Cardinality({i \in 1..Len(q) : q[i].due <= entry.due})
    IN  [j \in 1..(Len(q) + 1) |->
            IF j <= before THEN q[j] ELSE IF j = before + 1 THEN entry ELSE q[j - 1]]

(* a host timer whose one-shot stays pending after it has fired *)
RemoveAt_keepsPending(q, i) == q

RemoveAt(q, i) == [j \in 1..(Len(q) - 1) |-> IF j < i THEN q[j] ELSE q[j + 1]]

(* stop() that leaves the flag set *)
stop_keepsActive(act, id) == act

(* the closure stored in the registry: stop: () => { active = false } *)
stop(act, id) == [act EXCEPT ![id] = FALSE]

(* a counter that is read but not incremented *)
NextIntervalId_noIncrement(counter) == counter

(* const id = globalThis._intervalId++ leaves the counter one higher *)
NextIntervalId(counter) == counter + 1

(* a setInterval that runs repeat() at once when the delay is 0 *)
CallsAtRegistration_zeroDelayRunsNow(delay) == IF delay = 0 THEN 1 ELSE 0

(* setTimeout(repeat, delay); return id: repeat has not run when           *)
(* setInterval returns                                                     *)
CallsAtRegistration(delay) == 0

SetInterval(callback, delay) ==
    /\ UserCode
    /\ _intervalId <= MaxHandles
    /\ LET id == _intervalId IN
         /\ _intervalId' = NextIntervalId(_intervalId)
         /\ active' = MapSet(active, id, TRUE)
         /\ closure' = MapSet(closure, id, [callback |-> callback, delay |-> delay])
         /\ _intervals' = _intervals \cup {id}
         /\ timeouts' = setTimeout(timeouts, id, delay, now)
         /\ calls' = MapSet(calls, id, CallsAtRegistration(delay))
         /\ count' = MapSet(count, id, 0)
         /\ returned' = Append(returned, id)
    /\ UNCHANGED <<running, pc, out, _timers, _performanceMarks, now, uncaught>>
    /\ UNCHANGED <<result, outerVars>>

(* clearInterval that deletes the registry entry without calling stop() *)
ActiveAfterClear_noStop(act, reg, id) == act

(* clearInterval without the has() test, on a flag all intervals share *)
ActiveAfterClear_sharedFlag(act, reg, id) == [h \in DOMAIN act |-> FALSE]

ActiveAfterClear(act, reg, id) == IF id \in reg THEN stop(act, id) ELSE act

(* clearInterval that stops the interval but keeps its registry entry *)
RegistryAfterClear_keepsEntry(reg, id) == reg

(* clearInterval that empties the registry *)
RegistryAfterClear_clearsAll(reg, id) == {}

RegistryAfterClear(reg, id) == IF id \in reg THEN reg \ {id} ELSE reg

ClearInterval(id) ==
    /\ UserCode
    /\ active' = ActiveAfterClear(active, _intervals, id)
    /\ _intervals' = RegistryAfterClear(_intervals, id)
    /\ UNCHANGED <<_intervalId, closure, timeouts, calls, count, returned, uncaught,
                   running, pc, out, _timers, _performanceMarks, now>>
    /\ UNCHANGED <<result, outerVars>>

(* cap on the firings explored per handle; a test callback may fire once   *)
(* beyond its limit                                                        *)
CallCap(callback) == IF callback.kind = "test" THEN callback.limit + 1 ELSE MaxCalls

(* cap on the lines the test script may write: one beyond its last line    *)
TestOutCap == MaxLimit + 2

(* repeat(), first part: the one-shot fires; if (active) the user callback  *)
(* is entered, otherwise repeat() returns at once                           *)
(* repeat() without the test of the flag at its start *)
EntersCallback_always(act, id) == TRUE

EntersCallback(act, id) == act[id]

RepeatBegin(i) ==
    /\ running = 0
    /\ ~Halted
    /\ ~InBenchmark
    /\ i \in 1..Len(timeouts)
    /\ timeouts[i].due <= now
    /\ LET id == timeouts[i].id IN
         /\ timeouts' = RemoveAt(timeouts, i)
         /\ IF EntersCallback(active, id)
            THEN /\ Counted(closure[id].callback) => calls[id] < CallCap(closure[id].callback)
                 /\ calls' = IF Counted(closure[id].callback)
                             THEN [calls EXCEPT ![id] = @ + 1] ELSE calls
                 /\ running' = id
                 /\ pc' = IF closure[id].callback.kind = "test" THEN "tick" ELSE "free"
            ELSE UNCHANGED <<calls, running, pc>>
    /\ UNCHANGED <<_intervalId, _intervals, active, closure, count, returned, uncaught,
                   out, _timers, _performanceMarks, now>>
    /\ UNCHANGED <<result, outerVars>>

(* repeat() that does not schedule a next firing *)
TimeoutsAfterCallback_once(q, act, id, delay, t) == q

(* repeat() that schedules the next firing both in the try block and after it *)
TimeoutsAfterCallback_twice(q, act, id, delay, t) ==
    IF act[id] THEN setTimeout(setTimeout(q, id, delay, t), id, delay, t) ELSE q

(* repeat(), last part: if (active) setTimeout(repeat, delay) *)
TimeoutsAfterCallback(q, act, id, delay, t) ==
    IF act[id] THEN setTimeout(q, id, delay, t) ELSE q

CallbackReturn ==
    /\ running # 0
    /\ ~InBenchmark
    /\ pc \in {"return", "free"}
    /\ timeouts' = TimeoutsAfterCallback(timeouts, active, running,
                                         closure[running].delay, now)
    /\ running' = 0
    /\ pc' = "none"
    /\ UNCHANGED <<_intervalId, _intervals, active, closure, calls, count, returned,
                   uncaught, out, _timers, _performanceMarks, now>>
    /\ UNCHANGED <<result, outerVars>>

(* repeat() without the try/catch around the callback *)
RepeatCatches_missing(e) == FALSE

(* try { callback(...args) } catch (error) { ... }: the catch clause takes  *)
(* every thrown value                                                      *)
RepeatCatches(e) == TRUE

(* the user callback throws e: caught by repeat() and reported through     *)
(* console.error, after which repeat() goes on to its rescheduling; a      *)
(* value that is not caught leaves repeat() and reaches the host           *)
CallbackThrow(e) ==
    /\ running # 0
    /\ ~InBenchmark
    /\ pc = "free"
    /\ Len(out) < MaxOut
    /\ IF RepeatCatches(e)
       THEN /\ out' = print(out, ConsoleErrorLine(<<Str("Error in setInterval callback:"), e>>))
            /\ timeouts' = TimeoutsAfterCallback(timeouts, active, running,
                                                 closure[running].delay, now)
            /\ UNCHANGED uncaught
       ELSE /\ uncaught' = uncaught \cup {e}
            /\ UNCHANGED <<out, timeouts>>
    /\ running' = 0
    /\ pc' = "none"
    /\ UNCHANGED <<_intervalId, _intervals, active, closure, calls, count, returned,
                   _timers, _performanceMarks, now>>
    /\ UNCHANGED <<result, outerVars>>

----------------------------------------------------------------------------
(* process.exit *)

(* the code argument: omitted, or a number *)
ExitCodes == {Undefined, Num(0), Num(1), Num(2)}

(* "Process exit: " + (code || 0) *)
ExitMessage(code) == "Process exit: " \o ToString(IF Truthy(code) THEN code.v ELSE 0)

(* exit that throws for a failure code only and returns for code 0 or none *)
exit_returnsOnSuccess(code) ==
    IF Truthy(code)
    THEN [kind |-> "throw", value |-> ErrorObject(ExitMessage(code))]
    ELSE [kind |-> "return", value |-> Undefined]

(* how the call process.exit(code) completes *)
exit(code) == [kind |-> "throw", value |-> ErrorObject(ExitMessage(code))]

(* console.log, console.error, console.warn: the arguments are formatted   *)
(* and the line goes out through one call of print; an error thrown by the *)
(* formatter would leave the call as any error thrown by user code does    *)
ConsoleCall(line, args) ==
    /\ UserCode
    /\ ~InBenchmark
    /\ Len(out) < MaxOut
    /\ IF FormatRaises(args)
       THEN IF running = 0
            THEN /\ uncaught' = uncaught \cup {CircularError}
                 /\ UNCHANGED <<_intervalId, _intervals, active, closure, timeouts, calls,
                                count, returned, running, pc, out, _timers,
                                _performanceMarks, now, result, outerVars>>
            ELSE CallbackThrow(CircularError)
       ELSE /\ out' = print(out, line)
            /\ result' = Undefined
            /\ UNCHANGED <<intervalVars, running, pc, _timers, _performanceMarks, now,
                           outerVars>>

ConsoleLog(args) == ConsoleCall(ConsoleLogLine(args), args)

ConsoleError(args) == ConsoleCall(ConsoleErrorLine(args), args)

ConsoleWarn(args) == ConsoleCall(ConsoleWarnLine(args), args)

(* user code calls process.exit(code) and does not catch what it throws:   *)
(* at the top level of the script the error is uncaught; in an interval    *)
(* callback it reaches the catch of repeat                                 *)
ProcessExit(code) ==
    /\ UserCode
    /\ ~InBenchmark
    /\ LET completion == exit(code) IN
         IF completion.kind = "throw"
         THEN IF running = 0
              THEN /\ uncaught' = uncaught \cup {completion.value}
                   /\ UNCHANGED <<_intervalId, _intervals, active, closure, timeouts, calls,
                                  count, returned, running, pc, out, _timers,
                                  _performanceMarks, now, result, outerVars>>
              ELSE CallbackThrow(completion.value)
         ELSE /\ result' = completion.value
              /\ UNCHANGED <<intervalVars, running, pc, out, _timers, _performanceMarks,
                             now, outerVars>>

----------------------------------------------------------------------------
(* strings of the command line and of the generated bundle, as sequences   *)
(* of characters                                                           *)

(* the characters of file paths: a letter, the separator, and the two      *)
(* characters that mean something inside a single-quoted literal           *)
PathChars == {"a", "/", "'", "\\"}

(* the characters of script arguments: a letter and the two characters     *)
(* that mean something inside a double-quoted literal                      *)
ArgChars == {"a", "\"", "\\"}

SeqsUpTo(S, n) == UNION {[1..k -> S] : k \in 0..n}

FilePaths == SeqsUpTo(PathChars, MaxNameLen) \ {<<>>}

ArgValues == [1..1 -> ArgChars]

ArgLists == SeqsUpTo(ArgValues, MaxArgs)

RECURSIVE Concat(_)
Concat(parts) == IF parts = <<>> THEN <<>> ELSE Head(parts) \o Concat(Tail(parts))

(* path.basename: trailing separators dropped, then what follows the last  *)
(* separator                                                               *)
RECURSIVE StripTrailingSlashes(_)
StripTrailingSlashes(path) ==
    IF path # <<>> /\ path[Len(path)] = "/"
    THEN StripTrailingSlashes(SubSeq(path, 1, Len(path) - 1))
    ELSE path

basename(filePath) ==
    LET path == StripTrailingSlashes(filePath)
        slashes == {i \in 1..Len(path) : path[i] = "/"}
        last == IF slashes = {} THEN 0 ELSE CHOOSE i \in slashes : \A j \in slashes : j <= i
    IN  SubSeq(path, last + 1, Len(path))

(* JSON.stringify of a string *)
JsonEscape(c) == IF c \in {"\"", "\\"} THEN <<"\\", c>> ELSE <<c>>

JsonStringifyString(str) ==
    <<"\"">> \o Concat([i \in 1..Len(str) |-> JsonEscape(str[i])]) \o <<"\"">>

(* `'${basename(filePath)}'`: the base name between single quotes, as is *)
NameLiteral(filePath) == <<"'">> \o basename(filePath) \o <<"'">>

(* the literals of the generated statement                                 *)
(*   globalThis.process.argv = ['hermes', '<name>'].concat([<args>]);      *)
ArgsInjection(filePath, args) ==
    [name |-> NameLiteral(filePath),
     args |-> [i \in 1..Len(args) |-> JsonStringifyString(args[i])]]

(* the value of a JavaScript string literal: the text starts with its      *)
(* quote, a backslash makes the next character part of the string, and the *)
(* first quote not behind a backslash ends the literal, which is well      *)
(* formed only if the text ends there                                      *)
RECURSIVE ScanLiteral(_, _, _)
ScanLiteral(text, i, acc) ==
    IF i > Len(text) THEN [ok |-> FALSE, v |-> <<>>]
    ELSE IF text[i] = text[1] THEN [ok |-> i = Len(text), v |-> acc]
    ELSE IF text[i] = "\\"
         THEN IF i + 1 > Len(text) THEN [ok |-> FALSE, v |-> <<>>]
              ELSE ScanLiteral(text, i + 2, Append(acc, text[i + 1]))
    ELSE ScanLiteral(text, i + 1, Append(acc, text[i]))

EvalStringLiteral(text) == ScanLiteral(text, 2, <<>>)

(* the generated statement parses *)
InjectionParses(inj) ==
    /\ EvalStringLiteral(inj.name).ok
    /\ \A i \in 1..Len(inj.args) : EvalStringLiteral(inj.args[i]).ok

(* ['hermes', '<name>'].concat([<args>]) evaluated *)
InjectedArgv(inj) ==
    <<Hermes, EvalStringLiteral(inj.name).v>>
        \o [i \in 1..Len(inj.args) |-> EvalStringLiteral(inj.args[i]).v]

----------------------------------------------------------------------------
(* hermesx <file> [args...]: runWithHermes, the bundler, the runner and the *)
(* engine process it spawns                                                *)

(* what a user script does at its top level: it runs to its end, or it     *)
(* calls process.exit(code)                                                *)
UserScripts == {[kind |-> "return", code |-> Undefined]}
                   \cup {[kind |-> "exit", code |-> c] : c \in ExitCodes}

HostEnvs == {EmptyMap, MapSet(EmptyMap, "HOME", "/root")}

(* join(tmpdir(), `hermesx-bundle-${randomSuffix}.js`) *)
OutputPath == "hermesx-bundle.js"

(* what Metro wrote, before the globals and the injection are prepended *)
MetroOutput(script) ==
    [globals |-> FALSE, argsInjection |-> [name |-> <<>>, args |-> <<>>], bundled |-> script]

(* globalsContent + "\n" + argsInjection + "\n" + bundledContent *)
CombinedContent(filePath, args, script) ==
    [globals |-> TRUE, argsInjection |-> ArgsInjection(filePath, args), bundled |-> script]

(* a line of console.error of the hermesx process: a text, and the path it *)
(* ends with, if any                                                       *)
ErrorLine(text, path) == [text |-> text, path |-> path]

(* the exit codes the engine may end with after an uncaught error or a     *)
(* bundle that does not parse                                              *)
EngineFailureCodes == {1, 2}

(* process.platform of the machines hermesx may be started on *)
Platforms == {"darwin", "linux", "win32"}

(* detectArchitecture returns the platform for these and throws for the rest *)
SupportedPlatforms == {"darwin", "linux"}

(* join(this.cacheDir, `hermes-${arch}`), as a name inside the cache directory *)
getBinaryPath(arch) == "hermes-" \o arch

(* const tempFile = `${targetPath}.tmp.tar.gz` *)
TempFile(targetPath) == targetPath \o ".tmp.tar.gz"

(* join(dirname(targetPath), "hermes"): where tar extracts the binary to *)
ExtractedPath == "hermes"

(* the command line is parsed and the action handler calls runWithHermes;  *)
(* the machine is one of the supported or unsupported platforms, with or   *)
(* without a binary cached by an earlier run                               *)
CliInvoke(f, args, env, script, exists, plat, cached) ==
    /\ cliPc = "idle"
    /\ cli' = [cli EXCEPT !.file = f, !.scriptArgs = args, !.hostEnv = env,
                          !.userScript = script,
                          !.sourceFiles = IF exists THEN {f} ELSE {},
                          !.platform = plat,
                          !.cacheFiles = IF cached /\ plat \in SupportedPlatforms
                                         THEN {getBinaryPath(plat)} ELSE {},
                          !.runs = 1,
                          !.pc = "ensure"]
    /\ UNCHANGED <<intervalVars, running, pc, out, _timers, _performanceMarks, now, result,
                   bench, processVars>>

(* the same command is run once more on the same machine: a new hermesx    *)
(* process and, later, a new engine process, over the files the earlier    *)
(* runs left on disk                                                       *)
CliAgain ==
    /\ cliPc = "exited"
    /\ runs < MaxRuns
    /\ cli' = [cli EXCEPT !.pc = "ensure", !.runs = @ + 1,
                          !.engineEnv = EmptyMap, !.bundlePath = "none",
                          !.enginePc = "none", !.engineExit = NotExited,
                          !.exitCode = NotExited, !.stderr = <<>>,
                          !.hermesBinaryPath = "none"]
    /\ uncaught' = {}
    /\ result' = Undefined
    /\ UNCHANGED <<_intervalId, _intervals, active, closure, timeouts, calls, count, returned,
                   running, pc, out, _timers, _performanceMarks, now, bench, processVars>>

(* the catch of runWithHermes: the message goes to stderr and              *)
(* process.exit(1) ends the process there and then                         *)
CliCatch(c, line) ==
    [c EXCEPT !.stderr = Append(@, line), !.exitCode = 1, !.pc = "exited"]

(* how a download may go: to its end, or fetch fails (network error, a     *)
(* response that is not ok), the stream into the temporary file fails, tar *)
(* fails on the archive, the archive holds no hermes entry, or the rename  *)
(* of the extracted file fails                                             *)
DownloadOutcomes == {"ok", "fetch", "pipe", "extract", "noentry", "rename"}

(* a chmod that succeeds on a path at which nothing exists *)
chmodSyncThrows_never(files, targetPath) == FALSE

(* chmodSync(targetPath, 0o755) throws ENOENT when no file is at the path *)
chmodSyncThrows(files, targetPath) == targetPath \notin files

(* downloadOfficialBinary(arch, targetPath): the files of the cache        *)
(* directory after it, and whether it returned (ok) or threw               *)
(* DOWNLOAD_FAILED. The archive is written to the temporary file and       *)
(* extracted to "hermes"; if that file exists it is renamed to the target; *)
(* chmodSync throws when the target does not exist; the temporary file is  *)
(* unlinked last                                                           *)
downloadOfficialBinary(files, targetPath, outcome) ==
    IF outcome = "fetch" THEN [files |-> files, ok |-> FALSE]
    ELSE LET written == files \cup {TempFile(targetPath)} IN
         IF outcome \in {"pipe", "extract"} THEN [files |-> written, ok |-> FALSE]
         ELSE LET extracted == IF outcome = "noentry" THEN written
                               ELSE written \cup {ExtractedPath} IN
              IF ExtractedPath \in extracted /\ outcome = "rename"
              THEN [files |-> extracted, ok |-> FALSE]
              ELSE LET moved == IF ExtractedPath \in extracted
                                THEN (extracted \ {ExtractedPath}) \cup {targetPath}
                                ELSE extracted IN
                   IF chmodSyncThrows(moved, targetPath)
                   THEN [files |-> moved, ok |-> FALSE]
                   ELSE [files |-> moved \ {TempFile(targetPath)}, ok |-> TRUE]

(* ensureHermesBinary that downloads on every call *)
NeedsDownload_always(files, binaryPath) == TRUE

(* if (!existsSync(binaryPath)) *)
NeedsDownload(files, binaryPath) == binaryPath \notin files

(* await binaryManager.ensureHermesBinary(): detectArchitecture throws on  *)
(* an unsupported platform; the binary is downloaded when no file exists   *)
(* at its cache path; the path is returned                                 *)
EnsureHermesBinary(outcome) ==
    /\ cliPc = "ensure"
    /\ cli' =
         IF platform \notin SupportedPlatforms
         THEN CliCatch(cli, ErrorLine("Error: Unsupported platform: ", <<>>))
         ELSE LET binaryPath == getBinaryPath(platform) IN
              IF NeedsDownload(cacheFiles, binaryPath)
              THEN LET d == downloadOfficialBinary(cacheFiles, binaryPath, outcome) IN
                   IF d.ok
                   THEN [cli EXCEPT !.cacheFiles = d.files, !.downloads = @ + 1,
                                    !.hermesBinaryPath = binaryPath, !.pc = "bundle"]
                   ELSE CliCatch([cli EXCEPT !.cacheFiles = d.files, !.downloads = @ + 1],
                                 ErrorLine("Error: Failed to download Hermes binary: ", <<>>))
              ELSE [cli EXCEPT !.hermesBinaryPath = binaryPath, !.pc = "bundle"]
    /\ UNCHANGED <<intervalVars, running, pc, out, _timers, _performanceMarks, now, result,
                   bench, processVars>>

BundleOutcomes == {"ok", "metro", "combine"}

(* a bundler that takes every path for an existing file *)
existsSync_always(files, path) == TRUE

(* existsSync(absolutePath) *)
existsSync(files, path) == path \in files

(* `Error: ${error.message}` of HermesXError(`TypeScript file not found:   *)
(* ${filePath}`, "FILE_NOT_FOUND"), up to the path                         *)
FileNotFoundText == "Error: TypeScript file not found: "

(* await bundler.bundleTypeScript(file, scriptArgs): the file must exist,  *)
(* Metro builds it into the output file, and the globals and the argument  *)
(* injection are written in front of what Metro wrote                      *)
BundleTypeScript(outcome) ==
    /\ cliPc = "bundle"
    /\ cli' =
         IF ~existsSync(sourceFiles, file)
         THEN CliCatch(cli, ErrorLine(FileNotFoundText, file))
         ELSE IF outcome = "metro" \/ file[Len(file)] = "/"
         THEN CliCatch(cli, ErrorLine("Error: Bundling failed: ", <<>>))
         ELSE IF outcome = "combine"
         THEN CliCatch([cli EXCEPT !.tmpFiles =
                                      MapSet(@, OutputPath, MetroOutput(userScript))],
                       ErrorLine("Error: Failed to combine globals: ", <<>>))
         ELSE [cli EXCEPT !.tmpFiles = MapSet(@, OutputPath,
                                              CombinedContent(file, scriptArgs, userScript)),
                          !.bundlePath = OutputPath,
                          !.pc = "execute"]
    /\ UNCHANGED <<intervalVars, running, pc, out, _timers, _performanceMarks, now, result,
                   bench, processVars>>

(* what spawn may do: start the engine, emit the error event of a process  *)
(* that could not be started, or throw, which rejects the promise of       *)
(* executeBundle with an error that is no HermesXError                     *)
SpawnOutcomes == {"started", "error", "throw"}

(* runner.executeBundle: spawn(hermesBinaryPath, [bundlePath],             *)
(* {stdio: "inherit", env: process.env})                                   *)
ExecuteBundle(outcome) ==
    /\ cliPc = "execute"
    /\ cli' = IF outcome = "started"
              THEN [cli EXCEPT !.engineEnv = hostEnv, !.enginePc = "load", !.pc = "running"]
              ELSE IF outcome = "error"
              THEN CliCatch(cli, ErrorLine("Error: Failed to start Hermes process: ", <<>>))
              ELSE CliCatch(cli, ErrorLine("Unexpected error: ", <<>>))
    /\ UNCHANGED <<intervalVars, running, pc, out, _timers, _performanceMarks, now, result,
                   bench, processVars>>

(* a bundle with the argument injection written ahead of the globals *)
BundleOrder_injectionFirst(content) == <<"inject", "globals", "user">>

(* the parts of the bundle file in the order of its text:                  *)
(* globalsContent + "\n" + argsInjection + "\n" + bundledContent           *)
BundleOrder(content) == <<"globals", "inject", "user">>

(* the part the engine runs after a part that has run to its end *)
PartAfter(content, part) ==
    LET order == BundleOrder(content)
        i == CHOOSE k \in 1..Len(order) : order[k] = part
    IN  IF i < Len(order) THEN order[i + 1] ELSE "exited"

(* globalThis.process exists when the part starts: the globals ran before it *)
ProcessInstalledBefore(content, part) ==
    LET order == BundleOrder(content) IN
    \E i, j \in 1..Len(order) : i < j /\ order[i] = "globals" /\ order[j] = part

(* the engine parses the bundle file: one statement that does not parse    *)
(* and nothing of the file is run                                          *)
EngineLoad(code) ==
    /\ enginePc = "load"
    /\ cli' = IF InjectionParses(tmpFiles[bundlePath].argsInjection)
              THEN [cli EXCEPT !.enginePc = BundleOrder(tmpFiles[bundlePath])[1]]
              ELSE [cli EXCEPT !.enginePc = "exited", !.engineExit = code]
    /\ UNCHANGED <<intervalVars, running, pc, out, _timers, _performanceMarks, now, result,
                   bench, processVars>>

(* the engine runs the globals: globalThis.process with its argv and env,  *)
(* and the console, interval and performance state as in Init              *)
EngineGlobals ==
    /\ enginePc = "globals"
    /\ process' = [argv |-> <<Hermes, ScriptJs>>, env |-> EmptyMap]
    /\ cli' = [cli EXCEPT !.enginePc = PartAfter(tmpFiles[bundlePath], "globals")]
    /\ UNCHANGED <<intervalVars, running, pc, out, _timers, _performanceMarks, now, result,
                   bench>>

(* the engine runs the argument injection:                                 *)
(* if (globalThis.process && globalThis.process.argv) process.argv = ...   *)
EngineInject ==
    /\ enginePc = "inject"
    /\ process' = IF ProcessInstalledBefore(tmpFiles[bundlePath], "inject")
                  THEN [process EXCEPT
                           !.argv = InjectedArgv(tmpFiles[bundlePath].argsInjection)]
                  ELSE process
    /\ cli' = [cli EXCEPT !.enginePc = PartAfter(tmpFiles[bundlePath], "inject")]
    /\ UNCHANGED <<intervalVars, running, pc, out, _timers, _performanceMarks, now, result,
                   bench>>

(* the user's script calls process.exit(code) at its top level *)
ScriptExits ==
    /\ enginePc = "user"
    /\ tmpFiles[bundlePath].bundled.kind = "exit"
    /\ ProcessExit(tmpFiles[bundlePath].bundled.code)

(* the engine process ends: with code 0 when the script has run to its     *)
(* end, with a failure code when an error went uncaught                    *)
EngineExits(code) ==
    /\ enginePc = "user"
    /\ Halted \/ tmpFiles[bundlePath].bundled.kind = "return"
    /\ cli' = [cli EXCEPT !.engineExit = IF Halted THEN code ELSE 0, !.enginePc = "exited"]
    /\ UNCHANGED <<intervalVars, running, pc, out, _timers, _performanceMarks, now, result,
                   bench, processVars>>

(* a close handler that resolves whatever the code *)
CloseResolves_always(code) == TRUE

(* if (code === 0) resolve() *)
CloseResolves(code) == code = 0

(* the close event of the engine process: code 0 resolves executeBundle,   *)
(* any other code rejects it and the catch of runWithHermes reports it     *)
RunnerClose ==
    /\ cliPc = "running"
    /\ enginePc = "exited"
    /\ cli' = IF CloseResolves(engineExit)
              THEN [cli EXCEPT !.pc = "cleanup"]
              ELSE CliCatch(cli, ErrorLine("Error: Hermes execution failed with exit code "
                                              \o ToString(engineExit), <<>>))
    /\ UNCHANGED <<intervalVars, running, pc, out, _timers, _performanceMarks, now, result,
                   bench, processVars>>

(* the finally of runWithHermes: runner.cleanup(bundlePath) unlinks the    *)
(* bundle file, and the process ends with nothing left to do               *)
Cleanup ==
    /\ cliPc = "cleanup"
    /\ cli' = [cli EXCEPT !.tmpFiles = IF bundlePath \in DOMAIN @
                                       THEN MapDelete(@, bundlePath) ELSE @,
                          !.exitCode = 0,
                          !.pc = "exited"]
    /\ UNCHANGED <<intervalVars, running, pc, out, _timers, _performanceMarks, now, result,
                   bench, processVars>>

----------------------------------------------------------------------------
(* the callback of the interval test script:                               *)
(*   count++; console.log("Tick:", count);                                 *)
(*   if (count >= 3) { clearInterval(intervalId); console.log("...") }     *)

PassedLine == "setInterval test passed"

TestTick ==
    /\ running # 0
    /\ pc = "tick"
    /\ Len(out) < TestOutCap
    /\ count' = [count EXCEPT ![running] = @ + 1]
    /\ out' = print(out, ConsoleLogLine(<<Str("Tick:"), Num(count[running] + 1)>>))
    /\ pc' = "check"
    /\ UNCHANGED <<_intervalId, _intervals, active, closure, timeouts, calls, returned,
                   uncaught, running, _timers, _performanceMarks, now>>
    /\ result' = Undefined
    /\ UNCHANGED outerVars

TestCheck ==
    /\ running # 0
    /\ pc = "check"
    /\ IF count[running] >= closure[running].callback.limit
       THEN /\ active' = ActiveAfterClear(active, _intervals, running)
            /\ _intervals' = RegistryAfterClear(_intervals, running)
            /\ pc' = "passed"
       ELSE /\ pc' = "return"
            /\ UNCHANGED <<active, _intervals>>
    /\ UNCHANGED <<_intervalId, closure, timeouts, calls, count, returned, uncaught,
                   running, out, _timers, _performanceMarks, now>>
    /\ UNCHANGED <<result, outerVars>>

TestPassed ==
    /\ running # 0
    /\ pc = "passed"
    /\ Len(out) < TestOutCap
    /\ out' = print(out, ConsoleLogLine(<<Str(PassedLine)>>))
    /\ pc' = "return"
    /\ UNCHANGED <<intervalVars, running, _timers, _performanceMarks, now>>
    /\ result' = Undefined
    /\ UNCHANGED outerVars

----------------------------------------------------------------------------
Handles == 0..(MaxHandles + 1)

(* the interval scheduler under arbitrary user code *)
Next ==
    \/ Tick
    \/ \E d \in Delays : SetInterval(FreeCallback, d)
    \/ \E id \in Handles : ClearInterval(id)
    \/ \E i \in 1..Len(timeouts) : RepeatBegin(i)
    \/ CallbackReturn
    \/ \E e \in Thrown : CallbackThrow(e)

Spec == Init /\ [][Next]_vars

(* the console timers and performance marks in the synchronous run of a    *)
(* main script, which may also register and cancel an interval; the host   *)
(* fires no one-shot before the main script has finished                   *)
NextConsole ==
    \/ Tick
    \/ \E label \in Labels : ConsoleTime(label)
    \/ \E label \in Labels : ConsoleTimeEnd(label)
    \/ \E label \in Labels : ConsoleTimeLog(label, <<>>)
    \/ \E name \in MarkNames : PerformanceMark(name)
    \/ (_intervalId = 1 /\ \E d \in Delays : SetInterval(FreeCallback, d))
    \/ \E id \in Handles : ClearInterval(id)

SpecConsole == Init /\ [][NextConsole]_vars

(* the console timers, called with every kind of label a script can pass   *)
(* (none, undefined, null, the empty string, "default" and a name), in a   *)
(* script that also reads the performance entries, whose return value is   *)
(* the last one the script saw until the next call returns                 *)
TimerLabels == {Undefined, Null, Str(""), Str("default"), Str("t")}

(* the data of a lap, already strings: Array.prototype.join leaves them be *)
LapData == <<"lap">>

NextLabels ==
    \/ Tick
    \/ \E label \in TimerLabels : ConsoleTime(label)
    \/ \E label \in TimerLabels : ConsoleTimeEnd(label)
    \/ \E label \in TimerLabels : ConsoleTimeLog(label, LapData)
    \/ PerformanceGetEntries

SpecLabels == Init /\ [][NextLabels]_vars

(* the interval test script alone: its top level registers one interval,   *)
(* whose callback cancels it at the limit-th firing                        *)
TestScriptMain ==
    /\ _intervalId = 1
    /\ \E k \in 1..MaxLimit, d \in Delays : SetInterval(TestCallback(k), d)

NextTest ==
    \/ Tick
    \/ TestScriptMain
    \/ \E i \in 1..Len(timeouts) : RepeatBegin(i)
    \/ TestTick
    \/ TestCheck
    \/ TestPassed
    \/ CallbackReturn

SpecTest == Init /\ [][NextTest]_vars

(* the measuring scripts: marks, measures between them and entry listings *)
NextPerf ==
    \/ Tick
    \/ \E name \in MeasureMarks : PerformanceMark(name)
    \/ \E name \in MeasureNames, a \in MarkRefs, b \in MarkRefs : PerformanceMeasure(name, a, b)
    \/ PerformanceGetEntries
    \/ \E type \in EntryTypes : PerformanceGetEntriesByType(type)
    \/ \E name \in MeasureNames : PerformanceGetEntriesByName(name)

SpecPerf == Init /\ [][NextPerf]_vars

(* the benchmarking scripts: benchmark calls whose callback takes time *)
NextBench ==
    \/ Tick
    \/ \E name \in BenchNames, n \in IterationArgs : BenchmarkBegin(name, n)
    \/ BenchFnReturn
    \/ \E e \in BenchThrown : BenchFnThrow(e)

SpecBench == Init /\ [][NextBench]_vars

(* scripts that end themselves with process.exit, at their top level or in *)
(* the callback of their interval, with a console timer, a mark, the        *)
(* interval in place and the value of an entry listing in hand             *)
NextProcess ==
    \/ Tick
    \/ ConsoleTime(Str("t"))
    \/ PerformanceMark("start")
    \/ PerformanceGetEntries
    \/ (_intervalId = 1 /\ \E d \in Delays : SetInterval(FreeCallback, d))
    \/ \E id \in Handles : ClearInterval(id)
    \/ \E i \in 1..Len(timeouts) : RepeatBegin(i)
    \/ CallbackReturn
    \/ \E code \in ExitCodes : ProcessExit(code)

SpecProcess == Init /\ [][NextProcess]_vars

(* one run of hermesx, from the command line to the exit of the process *)
NextCli ==
    \/ (cliPc = "idle"
          /\ \E f \in FilePaths, args \in ArgLists, env \in HostEnvs, script \in UserScripts,
                exists \in BOOLEAN, plat \in Platforms, cached \in BOOLEAN :
                  CliInvoke(f, args, env, script, exists, plat, cached))
    \/ \E outcome \in DownloadOutcomes : EnsureHermesBinary(outcome)
    \/ \E outcome \in BundleOutcomes : BundleTypeScript(outcome)
    \/ \E outcome \in SpawnOutcomes : ExecuteBundle(outcome)
    \/ \E code \in EngineFailureCodes : EngineLoad(code)
    \/ EngineGlobals
    \/ EngineInject
    \/ ScriptExits
    \/ \E code \in EngineFailureCodes : EngineExits(code)
    \/ RunnerClose
    \/ Cleanup

SpecCli == Init /\ [][NextCli]_vars

(* registration and cancellation among firings of callbacks that return *)
NextRegister ==
    \/ Tick
    \/ \E d \in Delays : SetInterval(FreeCallback, d)
    \/ \E id \in Handles : ClearInterval(id)
    \/ \E i \in 1..Len(timeouts) : RepeatBegin(i)
    \/ CallbackReturn

SpecRegister == Init /\ [][NextRegister]_vars

(* the host fires the one-shot of handle h *)
FireOf(h) == \E i \in 1..Len(timeouts) : timeouts[i].id = h /\ RepeatBegin(i)

(* a callback that was entered comes to its end, by return or by throw *)
CallbackEnds == CallbackReturn \/ \E e \in Thrown : CallbackThrow(e)

(* intervals followed without end. The clock of the model stops at         *)
(* MaxClock, so the intervals here have delay 0: their one-shots are due   *)
(* at every reading of the clock                                           *)
NextLive ==
    \/ Tick
    \/ SetInterval(LiveCallback, 0)
    \/ \E id \in Handles : ClearInterval(id)
    \/ \E h \in 1..MaxHandles : FireOf(h)
    \/ CallbackReturn
    \/ \E e \in Thrown : CallbackThrow(e)

(* the host timer is fair, every pending one-shot fires in the end         *)
(* although it cannot fire while another callback runs, and every callback *)
(* that was entered ends                                                   *)
SpecLive ==
    /\ Init /\ [][NextLive]_vars
    /\ \A h \in 1..MaxHandles : SF_vars(FireOf(h))
    /\ WF_vars(CallbackEnds)

(* the values of the console formatting test and of the documentation:     *)
(*   const obj = { name: "test", value: 123, nested: { key: "value" } };   *)
(*   const arr = [1, 2, { item: "test" }];                                 *)
(*   console.log("Multiple:", "text", 42, { key: "value" });               *)
TestObj ==
    Obj(<< <<"name", Str("test")>>, <<"value", Num(123)>>,
           <<"nested", Obj(<< <<"key", Str("value")>> >>)>> >>)

TestArr == Arr(<<Num(1), Num(2), Obj(<< <<"item", Str("test")>> >>)>>)

KeyValue == Obj(<< <<"key", Str("value")>> >>)

(* an object and an array with members JSON has no text for *)
Sparse == Obj(<< <<"f", Func("f")>>, <<"u", Undefined>>, <<"n", Null>> >>)

Holes == Arr(<<Undefined, Func(""), Bool(TRUE)>>)

(* const o = {}; o.self = o;  and  const p = { a: [] }; p.a.push(p); *)
SelfRef == Obj(<< <<"self", Ref>> >>)

DeepRef == Obj(<< <<"n", Num(1)>>, <<"a", Arr(<<Ref>>)>> >>)

Primitives ==
    {Null, Undefined, Str("text"), Str(""), Str("null"), Num(42), Num(-1), Num(0),
     Bool(TRUE), Bool(FALSE), Func("f"), Func("")}

Structures == {TestObj, TestArr, KeyValue, Sparse, Holes, Obj(<<>>), Arr(<<>>)}

Circulars == {SelfRef, DeepRef}

FormatValues == Primitives \cup Structures \cup Circulars

(* the values that appear side by side in one call, as in                  *)
(* console.log("Multiple:", "text", 42, { key: "value" })                  *)
Mixed == {Str("text"), Num(42), Undefined, KeyValue, SelfRef}

(* the argument lists of the console calls: every value on its own, and    *)
(* the lists of mixed values                                               *)
FormatArgLists == {<<v>> : v \in FormatValues} \cup SeqsUpTo(Mixed, MaxArgs)

(* scripts that write one line with console.log, console.error or          *)
(* console.warn                                                            *)
NextFormat ==
    \/ (out = <<>> /\ \E args \in FormatArgLists : ConsoleLog(args))
    \/ (out = <<>> /\ \E args \in FormatArgLists : ConsoleError(args))
    \/ (out = <<>> /\ \E args \in FormatArgLists : ConsoleWarn(args))

SpecFormat == Init /\ [][NextFormat]_vars

(* runs of one command on one machine, one after the other: the binary is  *)
(* downloaded, or the download fails, and the cache directory is what the  *)
(* earlier runs left                                                       *)
NextBinary ==
    \/ (cliPc = "idle"
          /\ \E exists \in BOOLEAN, plat \in Platforms :
                CliInvoke(<<"a">>, <<>>, EmptyMap, [kind |-> "return", code |-> Undefined],
                          exists, plat, FALSE))
    \/ CliAgain
    \/ \E outcome \in DownloadOutcomes : EnsureHermesBinary(outcome)
    \/ \E outcome \in BundleOutcomes : BundleTypeScript(outcome)
    \/ \E outcome \in SpawnOutcomes : ExecuteBundle(outcome)
    \/ \E code \in EngineFailureCodes : EngineLoad(code)
    \/ EngineGlobals
    \/ EngineInject
    \/ \E code \in EngineFailureCodes : EngineExits(code)
    \/ RunnerClose
    \/ Cleanup

SpecBinary == Init /\ [][NextBinary]_vars

(* what the user code of a bundle may do while the engine runs it: print,  *)
(* time the label "t", set the mark "start", run one interval of delay 0,  *)
(* run a benchmark of one iteration, ask for the end of the process        *)
PolyfillOperation ==
    \/ Tick
    \/ (out = <<>> /\ ConsoleLog(<<Str("x")>>))
    \/ (now = 0 /\ ConsoleTime(Str("t")))
    \/ (out = <<>> /\ ConsoleTimeEnd(Str("t")))
    \/ (now = 0 /\ PerformanceMark("start"))
    \/ (_intervalId = 1 /\ now = 0 /\ SetInterval(FreeCallback, 0))
    \/ (out = <<>> /\ ClearInterval(1))
    \/ (out = <<>> /\ \E i \in 1..Len(timeouts) : RepeatBegin(i))
    \/ CallbackReturn
    \/ (now = 0 /\ out = <<>> /\ BenchmarkBegin("b", Undefined))
    \/ BenchFnReturn
    \/ ProcessExit(Num(0))

(* one run of hermesx on a file that exists, with the binary in the cache, *)
(* followed into the engine: the parts of the bundle in their order, and   *)
(* the operations of the layer the user code calls                         *)
NextEngine ==
    \/ (cliPc = "idle"
          /\ \E f \in {<<"a">>, <<"'">>} :
                CliInvoke(f, <<<<"a">>>>, EmptyMap, [kind |-> "return", code |-> Undefined],
                          TRUE, "linux", TRUE))
    \/ \E outcome \in DownloadOutcomes : EnsureHermesBinary(outcome)
    \/ \E outcome \in BundleOutcomes : BundleTypeScript(outcome)
    \/ \E outcome \in SpawnOutcomes : ExecuteBundle(outcome)
    \/ \E code \in EngineFailureCodes : EngineLoad(code)
    \/ EngineGlobals
    \/ EngineInject
    \/ (enginePc = "user" /\ PolyfillOperation)
    \/ \E code \in EngineFailureCodes : EngineExits(code)
    \/ RunnerClose
    \/ Cleanup

SpecEngine == Init /\ [][NextEngine]_vars

(* scripts that mix marks and at most two measures from start to end with  *)
(* every other operation of the layer: at instant 0 they may start the     *)
(* default console timer, an interval of delay 0 and a benchmark of one    *)
(* iteration, and they read the timer and let the interval fire or cancel  *)
(* it before they print anything else                                      *)
NextMarks ==
    \/ Tick
    \/ \E name \in MeasureMarks : PerformanceMark(name)
    \/ (Len(out) <= 1 /\ \E name \in MeasureNames : PerformanceMeasure(name, "start", "end"))
    \/ PerformanceGetEntries
    \/ \E type \in EntryTypes : PerformanceGetEntriesByType(type)
    \/ \E name \in MeasureNames : PerformanceGetEntriesByName(name)
    \/ (now = 0 /\ ConsoleTime(Undefined))
    \/ (out = <<>> /\ ConsoleTimeEnd(Undefined))
    \/ (out = <<>> /\ ConsoleTimeLog(Undefined, <<>>))
    \/ (_intervalId = 1 /\ now = 0 /\ SetInterval(FreeCallback, 0))
    \/ (out = <<>> /\ \E id \in Handles : ClearInterval(id))
    \/ (out = <<>> /\ \E i \in 1..Len(timeouts) : RepeatBegin(i))
    \/ CallbackReturn
    \/ (now = 0 /\ BenchmarkBegin("b", Undefined))
    \/ BenchFnReturn

SpecMarks == Init /\ [][NextMarks]_vars

----------------------------------------------------------------------------
(* Properties of the interval test script (SpecTest) *)

IsPrefix(a, b) == Len(a) <= Len(b) /\ \A i \in 1..Len(a) : a[i] = b[i]

(* C1: an interval whose callback calls clearInterval on its own handle    *)
(* during its k-th firing has its callback invoked exactly k times: never  *)
(* more than k, and exactly k from the cancellation on, for every k and    *)
(* every delay, however long the host keeps running.                       *)
C1_SelfCancelExactlyK ==
    \A h \in DOMAIN closure :
        closure[h].callback.kind = "test" =>
            /\ calls[h] <= closure[h].callback.limit
            /\ ~active[h] => calls[h] = closure[h].callback.limit

(* the interval cancelled itself at its 2nd firing and the host went on    *)
C1_Witness ==
    /\ 1 \in DOMAIN closure
    /\ closure[1].callback = TestCallback(2)
    /\ ~active[1]
    /\ calls[1] = 2
    /\ running = 0
    /\ timeouts = <<>>
    /\ now > 0

(* C2: the test script whose callback prints a tick line, and at count 3   *)
(* cancels the interval and prints the final line, writes exactly          *)
(* "Tick: 1", "Tick: 2", "Tick: 3" and the final line, in this order, and  *)
(* nothing after the final line.                                           *)
ExpectedTestOutput == <<"Tick: 1", "Tick: 2", "Tick: 3", "setInterval test passed">>

C2_TestOutputOrder ==
    \A h \in DOMAIN closure :
        closure[h].callback = TestCallback(TestLimit) =>
            /\ IsPrefix(out, ExpectedTestOutput)
            /\ (~active[h] /\ running = 0) => out = ExpectedTestOutput

C2_Witness ==
    /\ 1 \in DOMAIN closure
    /\ closure[1].callback = TestCallback(TestLimit)
    /\ out = ExpectedTestOutput
    /\ running = 0
    /\ timeouts = <<>>
    /\ now = MaxClock

----------------------------------------------------------------------------
(* Properties of the interval scheduler (Spec) *)

PendingFor(q, h) == Cardinality({i \in 1..Len(q) : q[i].id = h})

ThrownText(e) == IF e.t = "string" THEN e.v ELSE "{}"

(* C3: when the user callback raises an error during a firing, the error   *)
(* does not leave repeat(), exactly one line "ERROR: Error in setInterval  *)
(* callback: <error>" is written, neither the active flags nor the         *)
(* registry change, and for a handle that is active when the error is      *)
(* raised exactly one one-shot, with the same delay, is added to the       *)
(* pending ones.                                                           *)
C3_ThrowingCallbackKeepsInterval ==
    [][\A e \in Thrown :
          CallbackThrow(e) =>
              /\ uncaught' = uncaught
              /\ out' = Append(out, "ERROR: Error in setInterval callback: " \o ThrownText(e))
              /\ active' = active
              /\ _intervals' = _intervals
              /\ running' = 0
              /\ active[running] =>
                    /\ running \in _intervals'
                    /\ \E i \in 1..Len(timeouts') :
                          /\ timeouts'[i] = [id |-> running,
                                             delay |-> closure[running].delay,
                                             due |-> now + closure[running].delay]
                          /\ RemoveAt(timeouts', i) = timeouts
              /\ ~active[running] => timeouts' = timeouts
      ]_vars

(* the interval fires again after a firing whose callback threw *)
C3_Witness ==
    /\ out = <<"ERROR: Error in setInterval callback: {}">>
    /\ running = 1
    /\ calls[1] = 2
    /\ active[1]
    /\ 1 \in _intervals

(* C4: clearInterval of a handle that was never issued or that is already  *)
(* cancelled changes nothing: no variable of the shim or of the host       *)
(* changes in that step.                                                   *)
NotLive(id) == id \notin DOMAIN active \/ ~active[id]

C4_ClearOfDeadHandleIsNoOp ==
    [][\A id \in Handles : (NotLive(id) /\ ClearInterval(id)) => UNCHANGED vars]_vars

(* a cancelled handle and a never issued one, beside a live interval with  *)
(* a pending one-shot                                                      *)
C4_Witness ==
    /\ DOMAIN active = {1, 2}
    /\ ~active[1]
    /\ active[2]
    /\ PendingFor(timeouts, 2) = 1
    /\ calls[2] >= 1

(* C5: once a handle is cancelled its callback is never invoked again: the *)
(* flag stays cleared, the invocation count stays, the callback is not     *)
(* entered, and the one-shots pending for the handle only get fewer.       *)
C5_NoInvocationAfterClear ==
    [][\A h \in DOMAIN active :
          ~active[h] =>
              /\ ~active'[h]
              /\ calls'[h] = calls[h]
              /\ (running # h => running' # h)
              /\ PendingFor(timeouts', h) <= PendingFor(timeouts, h)
      ]_vars

(* a handle cancelled from outside its callback while its one-shot is      *)
(* pending and due                                                         *)
C5_Witness ==
    \E h \in DOMAIN active :
        /\ ~active[h]
        /\ running = 0
        /\ calls[h] >= 1
        /\ \E i \in 1..Len(timeouts) : timeouts[i].id = h /\ timeouts[i].due <= now

(* C6: the n-th setInterval call returns n, so the handles returned are    *)
(* strictly increasing from 1 and none is returned twice, also when        *)
(* clearInterval calls come in between.                                    *)
C6_HandlesCountUpFromOne ==
    /\ \A n \in 1..Len(returned) : returned[n] = n
    /\ _intervalId = Len(returned) + 1

(* a handle issued after an earlier one was cancelled and had fired *)
C6_Witness ==
    /\ Len(returned) >= 2
    /\ ~active[1]
    /\ calls[1] >= 1
    /\ calls[2] >= 1

(* C7: a handle is in the registry exactly when its interval is active. *)
C7_RegistryIffActive ==
    /\ _intervals \subseteq DOMAIN active
    /\ \A h \in DOMAIN active : (h \in _intervals) <=> active[h]

(* one interval cancelled from inside the callback of another *)
C7_Witness ==
    /\ DOMAIN active = {1, 2}
    /\ _intervals = {2}
    /\ running = 2

(* C8: at most one one-shot is pending for a handle, and none while the    *)
(* callback of that handle is executing: the next firing is scheduled only *)
(* after the callback has returned or thrown.                              *)
C8_FiringsNeverOverlap ==
    \A h \in DOMAIN active :
        /\ PendingFor(timeouts, h) <= 1
        /\ running = h => PendingFor(timeouts, h) = 0

(* the second firing of a handle executing, the first having completed *)
C8_Witness ==
    /\ running = 1
    /\ calls[1] = 2
    /\ PendingFor(timeouts, 1) = 0
    /\ Len(timeouts) = 1

----------------------------------------------------------------------------
(* Properties of the console timers (SpecConsole) *)

LabelNames == {"t"}

(* C9: console.time(L) stores the current reading under L; a later         *)
(* console.timeEnd(L) writes the one line "<L>: <delta>ms" with delta the  *)
(* current reading minus the stored one, delta >= 0, and removes L; the    *)
(* stored reading is changed by nothing but time(L) and timeEnd(L); and    *)
(* timeEnd(L) or timeLog(L) on the removed label reports that the timer    *)
(* does not exist.                                                         *)
C9_TimeEndReportsDeltaAndRemoves ==
    [][\A L \in LabelNames :
          /\ ConsoleTime(Str(L)) => (L \in DOMAIN _timers' /\ _timers'[L] = now)
          /\ (L \in DOMAIN _timers /\ ~ConsoleTime(Str(L)) /\ ~ConsoleTimeEnd(Str(L))) =>
                (L \in DOMAIN _timers' /\ _timers'[L] = _timers[L])
          /\ (L \in DOMAIN _timers /\ ConsoleTimeEnd(Str(L))) =>
                /\ now - _timers[L] >= 0
                /\ out' = Append(out, L \o ": " \o ToString(now - _timers[L]) \o "ms")
                /\ L \notin DOMAIN _timers'
          /\ (L \notin DOMAIN _timers
                /\ (ConsoleTimeEnd(Str(L)) \/ ConsoleTimeLog(Str(L), <<>>))) =>
                out' = Append(out, "Timer '" \o L \o "' does not exist")
      ]_vars

(* timeEnd has reported a delta of two clock units and removed the label *)
C9_Witness ==
    /\ Len(out) >= 1
    /\ out[Len(out)] = "t: 2ms"
    /\ "t" \notin DOMAIN _timers

(* C10: console.timeEnd and console.timeLog on a label with no active      *)
(* start write the one line "Timer '<L>' does not exist", raise nothing    *)
(* and leave the label map, the mark map, the interval registry, the       *)
(* handle counter and everything else unchanged.                           *)
C10_MissingLabelOnlyReports ==
    [][\A label \in Labels :
          (Key(label) \notin DOMAIN _timers
             /\ (ConsoleTimeEnd(label) \/ ConsoleTimeLog(label, <<>>))) =>
                /\ out' = Append(out, "Timer '" \o Key(label) \o "' does not exist")
                /\ UNCHANGED <<_timers, _performanceMarks, _intervals, _intervalId,
                               active, closure, timeouts, calls, count, returned,
                               uncaught, running, pc, now>>
      ]_vars

(* the report was written while a label, a mark and an interval exist *)
C10_Witness ==
    /\ Len(out) >= 1
    /\ out[Len(out)] = "Timer 't' does not exist"
    /\ "default" \in DOMAIN _timers
    /\ "start" \in DOMAIN _performanceMarks
    /\ _intervals = {1}

(* the sum of the elements of a sequence of numbers *)
SumOf(seq) ==
    LET RECURSIVE upTo(_)
        upTo(k) == IF k = 0 THEN 0 ELSE upTo(k - 1) + seq[k]
    IN  upTo(Len(seq))

(* C12: console.timeLog(L) on an active label writes the one line         *)
(* "<L>: <delta>ms", delta being the current reading minus the reading     *)
(* stored by time(L), and neither removes nor changes L: the label map is  *)
(* the same after the call, so that every later timeLog(L) measures from   *)
(* the same start instant and a later timeEnd(L) still finds the label and *)
(* reports its delta.                                                      *)
C12_TimeLogKeepsLabel ==
    [][\A L \in LabelNames :
          /\ (L \in DOMAIN _timers /\ ConsoleTimeLog(Str(L), <<>>)) =>
                /\ out' = Append(out, L \o ": " \o ToString(now - _timers[L]) \o "ms")
                /\ _timers' = _timers
                /\ result' = Undefined
          /\ (L \in DOMAIN _timers /\ ConsoleTimeEnd(Str(L))) =>
                out' = Append(out, L \o ": " \o ToString(now - _timers[L]) \o "ms")
      ]_vars

(* timeLog has read one clock unit on the timer started at instant 0, and  *)
(* a timeEnd one unit later has read two on the same timer                 *)
C12_Witness ==
    /\ out = <<"t: 1ms", "t: 2ms">>
    /\ "t" \notin DOMAIN _timers

(* C13: performance.measure(name, a, b) with at least one of the marks a,  *)
(* b not recorded returns null, writes the one line "ERROR: Performance    *)
(* marks '<a>' or '<b>' not found" and no other line, throws nothing and   *)
(* leaves the mark map as it was.                                          *)
C13_MeasureOfMissingMark ==
    [][\A name \in MeasureNames, a \in MarkRefs, b \in MarkRefs :
          (PerformanceMeasure(name, a, b)
             /\ (a \notin DOMAIN _performanceMarks \/ b \notin DOMAIN _performanceMarks)) =>
                /\ result' = Null
                /\ out' = Append(out, "ERROR: Performance marks '" \o a \o "' or '" \o b
                                      \o "' not found")
                /\ _performanceMarks' = _performanceMarks
                /\ uncaught' = uncaught
                /\ UserCode'
      ]_vars

(* measure between the recorded mark start and a mark that was never made  *)
(* has returned null and reported the pair                                 *)
C13_Witness ==
    /\ "start" \in DOMAIN _performanceMarks
    /\ result = Null
    /\ Len(out) >= 1
    /\ out[Len(out)] = "ERROR: Performance marks 'start' or 'missing' not found"

(* C14: performance.measure(name, s, e) with both marks recorded returns   *)
(* the record with name = name, duration = reading(e) - reading(s),        *)
(* startTime = reading(s), entryType = "measure" and detail = null, and    *)
(* writes the one plain line "<name>: <duration>ms"; reading(n) is the     *)
(* clock reading at the most recent mark(n): mark(n) stores the current    *)
(* reading under n and no other step changes it.                           *)
C14_MeasureBetweenMarks ==
    [][/\ \A name \in MeasureNames, s \in MeasureMarks, e \in MeasureMarks :
            (PerformanceMeasure(name, s, e)
               /\ s \in DOMAIN _performanceMarks /\ e \in DOMAIN _performanceMarks) =>
                  /\ result' = [t |-> "object", name |-> name,
                                duration |-> _performanceMarks[e] - _performanceMarks[s],
                                startTime |-> _performanceMarks[s],
                                entryType |-> "measure", detail |-> Null]
                  /\ out' = Append(out, name \o ": "
                                   \o ToString(_performanceMarks[e] - _performanceMarks[s])
                                   \o "ms")
       /\ \A n \in MeasureMarks :
            /\ PerformanceMark(n) => (n \in DOMAIN _performanceMarks'
                                        /\ _performanceMarks'[n] = now)
            /\ (n \in DOMAIN _performanceMarks /\ ~PerformanceMark(n)) =>
                  (n \in DOMAIN _performanceMarks'
                     /\ _performanceMarks'[n] = _performanceMarks[n])
      ]_vars

(* with start marked at instant 1 and end at instant 2, the measure        *)
(* between them has returned duration 1 from start time 1                  *)
C14_Witness ==
    /\ result = [t |-> "object", name |-> "m", duration |-> 1, startTime |-> 1,
                 entryType |-> "measure", detail |-> Null]
    /\ Len(out) >= 1
    /\ out[Len(out)] = "m: 1ms"

(* C16: for every N >= 1 and a callback that returns normally,             *)
(* benchmark(name, fn, N) returns a result whose total is the exact sum of *)
(* the elements of its own results sequence and whose average is total / N *)
(* exactly, every results[i] being the clock reading after iteration i     *)
(* minus the reading before it: the element pushed when fn returns is the  *)
(* current reading minus the reading taken just before fn was called.      *)
C16_BenchmarkTotalAndAverage ==
    [][/\ \A name \in BenchNames, n \in IterationArgs :
            BenchmarkBegin(name, n) => (bench'.start = now /\ bench'.results = <<>>)
       /\ BenchFnReturn =>
            LET results == IF InBenchmark' THEN bench'.results ELSE result'.results IN
              /\ Len(results) = Len(bench.results) + 1
              /\ \A i \in 1..Len(bench.results) : results[i] = bench.results[i]
              /\ results[Len(results)] = now - bench.start
              /\ InBenchmark' => bench'.start = now
       /\ (BenchFnReturn /\ ~InBenchmark') =>
            LET N == bench.iterations IN
              /\ N >= 1
              /\ Len(result'.results) = N
              /\ result'.total = SumOf(result'.results)
              /\ result'.average.den > 0
              /\ result'.average.num * N = result'.total * result'.average.den
      ]_vars

(* a benchmark of three iterations that took 1, 0 and 1 clock units has    *)
(* returned total 2 and average 2/3                                        *)
C16_Witness ==
    /\ ~InBenchmark
    /\ "results" \in DOMAIN result
    /\ result.results = <<1, 0, 1>>
    /\ result.total = 2
    /\ result.average = [num |-> 2, den |-> 3]
    /\ out[4] = "  Average: 0.67ms"

(* C15: the mark map holds, for each name ever marked, the clock reading   *)
(* taken by the most recent performance.mark(name): mark(name) stores the  *)
(* current reading under name, over any earlier one, and no other step     *)
(* (measure, the entry listings, the console timers, the intervals,        *)
(* benchmark) removes, adds or changes a mark, so that the key set only    *)
(* grows and a mark serves any number of measures.                         *)
C15_MarksPersist ==
    [][/\ DOMAIN _performanceMarks \subseteq DOMAIN _performanceMarks'
       /\ \A n \in MarkRefs :
            /\ PerformanceMark(n) =>
                  (n \in DOMAIN _performanceMarks' /\ _performanceMarks'[n] = now)
            /\ (n \in DOMAIN _performanceMarks /\ ~PerformanceMark(n)) =>
                  (n \in DOMAIN _performanceMarks'
                     /\ _performanceMarks'[n] = _performanceMarks[n])
            /\ (n \notin DOMAIN _performanceMarks /\ ~PerformanceMark(n)) =>
                  n \notin DOMAIN _performanceMarks'
      ]_vars

(* two measures in a row have used the same pair of marks, which are still *)
(* in the map with the readings they were given                            *)
C15_Witness ==
    /\ Len(out) >= 2
    /\ out[Len(out) - 1] = "m: 1ms"
    /\ out[Len(out)] = "m: 1ms"
    /\ {"start", "end"} \subseteq DOMAIN _performanceMarks
    /\ _performanceMarks["end"] - _performanceMarks["start"] = 1

(* the texts of the missing-reference reports *)
MissingReferenceTexts ==
    {"Timer '" \o Key(label) \o "' does not exist" : label \in Labels}
        \cup {"Performance marks '" \o a \o "' or '" \o b \o "' not found" :
                 a \in MarkRefs, b \in MarkRefs}

(* the line is one of the reports behind the prefix of console.error *)
IsErrorLine(line) == \E text \in MissingReferenceTexts : line = "ERROR: " \o text

(* the line is one of the reports, with no prefix *)
IsPlainLine(line) == line \in MissingReferenceTexts

(* C11, as claimed: every missing-reference error, an unknown timer label  *)
(* on timeEnd or timeLog as well as an unknown mark on measure, is         *)
(* reported as one line carrying the prefix "ERROR: " of console.error,    *)
(* and the operation returns null or undefined instead of raising.         *)
C11_Original_AllOnErrorPath ==
    [][/\ (Key(Undefined) \notin DOMAIN _timers
             /\ (ConsoleTimeEnd(Undefined) \/ ConsoleTimeLog(Undefined, <<>>))) =>
                /\ Len(out') = Len(out) + 1
                /\ IsErrorLine(out'[Len(out')])
                /\ result' \in {Null, Undefined}
                /\ uncaught' = uncaught
       /\ \A name \in MeasureNames :
            (PerformanceMeasure(name, "start", "end")
               /\ ~({"start", "end"} \subseteq DOMAIN _performanceMarks)) =>
                /\ Len(out') = Len(out) + 1
                /\ IsErrorLine(out'[Len(out')])
                /\ result' \in {Null, Undefined}
                /\ uncaught' = uncaught
      ]_vars

(* C11, amended: an unknown mark on measure is reported as one line with   *)
(* the prefix "ERROR: " of console.error and measure returns null; an      *)
(* unknown timer label on timeEnd or timeLog is reported as one plain      *)
(* line, without the prefix, and the call returns undefined; none of the   *)
(* three raises, and user code goes on.                                    *)
C11_MissingReferenceReports ==
    [][/\ (Key(Undefined) \notin DOMAIN _timers
             /\ (ConsoleTimeEnd(Undefined) \/ ConsoleTimeLog(Undefined, <<>>))) =>
                /\ out' = Append(out, "Timer 'default' does not exist")
                /\ IsPlainLine(out'[Len(out')])
                /\ ~IsErrorLine(out'[Len(out')])
                /\ result' = Undefined
                /\ uncaught' = uncaught
                /\ UserCode'
       /\ \A name \in MeasureNames :
            (PerformanceMeasure(name, "start", "end")
               /\ ~({"start", "end"} \subseteq DOMAIN _performanceMarks)) =>
                /\ Len(out') = Len(out) + 1
                /\ \A i \in 1..Len(out) : out'[i] = out[i]
                /\ IsErrorLine(out'[Len(out')])
                /\ result' = Null
                /\ uncaught' = uncaught
                /\ UserCode'
      ]_vars

(* a read of the default timer that was never started, then a measure      *)
(* between marks that were never made: the first report is plain, the      *)
(* second carries the prefix, and the measure returned null                *)
C11_Witness ==
    /\ out = <<"Timer 'default' does not exist",
               "ERROR: Performance marks 'start' or 'end' not found">>
    /\ result = Null
    /\ uncaught = {}

(* the number process.exit(code) is asked to exit with *)
RequestedCode(code) == IF code = Undefined THEN 0 ELSE code.v

(* C18: process.exit(code) always raises and never returns a value, for    *)
(* every code including 0 and an omitted code: at the top level the script *)
(* ends on the uncaught error, whose message carries the requested code (0 *)
(* when omitted); in an interval callback the callback is left through the *)
(* catch of repeat, which reports an error; and the call changes neither   *)
(* the interval registry, nor the label map, nor the mark map.             *)
C18_ExitAlwaysRaises ==
    [][\A code \in ExitCodes :
          ProcessExit(code) =>
             /\ IF running = 0
                THEN /\ uncaught' = uncaught \cup
                            {[t |-> "error",
                              message |-> "Process exit: " \o ToString(RequestedCode(code))]}
                     /\ Halted'
                     /\ out' = out
                ELSE /\ out' = Append(out, "ERROR: Error in setInterval callback: {}")
                     /\ running' = 0
                     /\ uncaught' = uncaught
             /\ result' = result
             /\ UNCHANGED <<_intervals, _intervalId, active, closure, calls, returned,
                            _timers, _performanceMarks, processVars>>
      ]_vars

(* a script with a timer, a mark and a live interval has called            *)
(* process.exit with code 0 or none at its top level and ended on the      *)
(* error "Process exit: 0"                                                 *)
C18_Witness ==
    /\ uncaught = {[t |-> "error", message |-> "Process exit: 0"]}
    /\ "t" \in DOMAIN _timers
    /\ "start" \in DOMAIN _performanceMarks
    /\ _intervals # {}

(* C17: when hermesx runs file F with script arguments a1..an, the process *)
(* descriptor user code sees is argv = ['hermes', basename(F), a1, ...,    *)
(* an]: the fixed sentinel, the base name of the script, then the caller's *)
(* arguments in their order.                                               *)
C17_ArgvIsSentinelNameArgs ==
    enginePc = "user" => processArgv = <<Hermes, basename(file)>> \o scriptArgs

(* C19: a process.exit(c) made by user code is translated by the engine    *)
(* run and the hermesx command into the exit code c of the hermesx         *)
(* process: 0 for process.exit(0) or process.exit(), c for c # 0.          *)
C19_ExitCodeIsRequestedCode ==
    (cliPc = "exited" /\ userScript.kind = "exit" /\ Halted) =>
        exitCode = RequestedCode(userScript.code)

(* C20: before user code runs process.env holds the host environment: for  *)
(* every variable K=V of the environment hermesx was run with, user code   *)
(* reads process.env[K] = V.                                               *)
C20_EnvIsHostEnv ==
    enginePc = "user" =>
        \A K \in DOMAIN hostEnv : K \in DOMAIN processEnv /\ processEnv[K] = hostEnv[K]

----------------------------------------------------------------------------
(* C21: whenever bundling succeeded and the engine execution step has      *)
(* finished, with exit code 0, with another exit code or without having    *)
(* started, the temporary bundle file has been removed by the time the     *)
(* hermesx process has exited. The catch of runWithHermes calls            *)
(* process.exit(1), which ends the process before the finally block and    *)
(* its runner.cleanup(bundlePath) are reached, so the file stays behind    *)
(* on both failing outcomes.                                               *)
C21_BundleRemovedBeforeExit ==
    (cliPc = "exited" /\ bundlePath # "none") => bundlePath \notin DOMAIN tmpFiles

----------------------------------------------------------------------------
(* C28: the Hermes binary is downloaded only when it is not already at its *)
(* cache path. A call of ensureHermesBinary on a supported platform        *)
(* performs a download if and only if no file exists at the cache path of  *)
(* the platform; a call that finds the file returns its path and leaves    *)
(* the cache directory alone; a call that returns has the file at the path *)
(* it returns; and no step of hermesx removes the file again, so after one *)
(* successful download every later call returns the same path without      *)
(* another download.                                                       *)
C28_DownloadOnlyWhenAbsent ==
    [][LET path == getBinaryPath(platform) IN
         /\ (path \in cacheFiles) => (path \in cacheFiles' /\ platform' = platform)
         /\ (cliPc = "ensure" /\ cliPc' # "ensure" /\ platform \in SupportedPlatforms) =>
               /\ (downloads' = downloads + 1) <=> (path \notin cacheFiles)
               /\ (downloads' # downloads + 1) => (downloads' = downloads)
               /\ (path \in cacheFiles) =>
                     /\ cliPc' = "bundle"
                     /\ hermesBinaryPath' = path
                     /\ cacheFiles' = cacheFiles
               /\ (cliPc' = "bundle") => (hermesBinaryPath' = path /\ path \in cacheFiles')
      ]_vars

(* the third run of hermesx on a machine: the download of the first run    *)
(* failed, the second run downloaded the binary, and the third call of     *)
(* ensureHermesBinary has returned the cached path without a download      *)
C28_Witness ==
    /\ runs = 3
    /\ downloads = 2
    /\ cliPc = "bundle"
    /\ hermesBinaryPath = getBinaryPath(platform)
    /\ cacheFiles = {getBinaryPath(platform)}

----------------------------------------------------------------------------
(* the three steps of runWithHermes, read off the state of a run *)
Provisioned == hermesBinaryPath # "none"

Bundled == bundlePath # "none"

Executed == enginePc = "exited" /\ engineExit = 0

(* the lines the catch of runWithHermes can write: `Error: ${message}` for *)
(* the HermesXError of each step, and `Unexpected error: ...` for the rest *)
ErrorReports ==
    {"Error: Unsupported platform: ", "Error: Failed to download Hermes binary: ",
     FileNotFoundText, "Error: Bundling failed: ", "Error: Failed to combine globals: ",
     "Error: Failed to start Hermes process: ", "Unexpected error: "}
      \cup {"Error: Hermes execution failed with exit code " \o ToString(code) :
               code \in EngineFailureCodes}

(* C22: the hermesx process exits with code 0 if and only if binary        *)
(* provisioning, bundling and engine execution all succeeded, the engine   *)
(* with exit code 0; every failure of one of these steps, a HermesXError   *)
(* or an unexpected error, has written one error message to stderr and     *)
(* the exit code is 1; and the steps after a failed step were not started: *)
(* without a binary nothing is bundled, without a bundle no engine runs.   *)
C22_ExitCodeTellsSuccess ==
    /\ (exitCode # NotExited) <=> (cliPc = "exited")
    /\ cliPc = "exited" =>
          /\ exitCode \in {0, 1}
          /\ (exitCode = 0) <=> (Provisioned /\ Bundled /\ Executed)
          /\ (exitCode = 1) =>
                /\ Len(stderr) = 1
                /\ stderr[1].text \in ErrorReports
          /\ ~Provisioned => (~Bundled /\ tmpFiles = EmptyMap)
          /\ ~Bundled => enginePc = "none"

(* the engine ended with a failure code and hermesx has exited with 1      *)
(* after reporting it                                                      *)
C22_Witness ==
    /\ cliPc = "exited"
    /\ Provisioned /\ Bundled
    /\ enginePc = "exited"
    /\ engineExit \in EngineFailureCodes
    /\ exitCode = 1
    /\ stderr = <<ErrorLine("Error: Hermes execution failed with exit code "
                               \o ToString(engineExit), <<>>)>>

(* C23 as stated: a run of hermesx on a path at which no file exists has   *)
(* reported "TypeScript file not found" with the path on stderr and exited *)
(* with a non-zero code, with no temporary bundle created and no engine    *)
(* started. It fails on a machine where the binary cannot be provisioned:  *)
(* ensureHermesBinary runs before the bundler looks at the path.           *)
C23_Original_AlwaysFileNotFound ==
    (cliPc = "exited" /\ file \notin sourceFiles) =>
        /\ stderr = <<ErrorLine(FileNotFoundText, file)>>
        /\ exitCode \notin {0, NotExited}
        /\ tmpFiles = EmptyMap /\ ~Bundled
        /\ enginePc = "none"

(* C23, amended: a run of hermesx on a path at which no file exists ends   *)
(* with a non-zero exit code and one line on stderr, with no temporary     *)
(* bundle created and no engine started; the line is "TypeScript file not  *)
(* found" with the path when the Hermes binary was provisioned, and the    *)
(* report of the failed provisioning otherwise.                            *)
C23_MissingFileReported ==
    (cliPc = "exited" /\ file \notin sourceFiles) =>
        /\ exitCode = 1
        /\ tmpFiles = EmptyMap /\ ~Bundled
        /\ enginePc = "none"
        /\ Len(stderr) = 1
        /\ Provisioned => stderr[1] = ErrorLine(FileNotFoundText, file)
        /\ ~Provisioned => stderr[1].text \in {"Error: Unsupported platform: ",
                                               "Error: Failed to download Hermes binary: "}

(* the binary was there and the missing file has been reported *)
C23_Witness ==
    /\ cliPc = "exited"
    /\ file \notin sourceFiles
    /\ Provisioned
    /\ stderr = <<ErrorLine(FileNotFoundText, file)>>
    /\ exitCode = 1

----------------------------------------------------------------------------
(* what the console is to print for each value of the formatting scripts,  *)
(* written out                                                             *)
Rendering(value) ==
    CASE value = Null -> "null"
      [] value = Undefined -> "undefined"
      [] value = Str("text") -> "text"
      [] value = Str("") -> ""
      [] value = Str("null") -> "null"
      [] value = Num(42) -> "42"
      [] value = Num(-1) -> "-1"
      [] value = Num(0) -> "0"
      [] value = Bool(TRUE) -> "true"
      [] value = Bool(FALSE) -> "false"
      [] value = Func("f") -> "[Function: f]"
      [] value = Func("") -> "[Function: anonymous]"
      [] value = TestObj ->
            "{\n  \"name\": \"test\",\n  \"value\": 123,\n  \"nested\": {\n    \"key\": \"value\"\n  }\n}"
      [] value = TestArr -> "[\n  1,\n  2,\n  {\n    \"item\": \"test\"\n  }\n]"
      [] value = KeyValue -> "{\n  \"key\": \"value\"\n}"
      [] value = Sparse -> "{\n  \"n\": null\n}"
      [] value = Holes -> "[\n  null,\n  null,\n  true\n]"
      [] value = Obj(<<>>) -> "{}"
      [] value = Arr(<<>>) -> "[]"
      [] value \in Circulars -> "[object Object]"

(* the renderings of the values of a call, each followed by one space but  *)
(* the last                                                                *)
RECURSIVE SpaceJoined(_)
SpaceJoined(args) ==
    IF args = <<>> THEN ""
    ELSE IF Len(args) = 1 THEN Rendering(args[1])
    ELSE SpaceJoined(SubSeq(args, 1, Len(args) - 1)) \o " " \o Rendering(args[Len(args)])

HasCircular(args) == \E i \in 1..Len(args) : args[i] \in Circulars

C25_CircularFallsBack ==
    [][\A args \in FormatArgLists :
          HasCircular(args) =>
              /\ ConsoleLog(args) =>
                    (out' = Append(out, SpaceJoined(args)) /\ uncaught' = uncaught)
              /\ ConsoleError(args) =>
                    (out' = Append(out, "ERROR: " \o SpaceJoined(args))
                       /\ uncaught' = uncaught)
              /\ ConsoleWarn(args) =>
                    (out' = Append(out, "WARN: " \o SpaceJoined(args))
                       /\ uncaught' = uncaught)
      ]_vars

(* console.warn(42, o) with o.self = o has printed its one line and the    *)
(* script goes on                                                          *)
C25_Witness == out = <<"WARN: 42 [object Object]">> /\ ~Halted

(* C26: for every argument sequence the line console.error prints is       *)
(* "ERROR: " followed by the line console.log prints for the same          *)
(* arguments, and the line console.warn prints is "WARN: " followed by     *)
(* that line; the three calls differ in the prefix and in nothing else:    *)
(* each prints one line, returns undefined and leaves the rest alone.      *)
C26_PrefixIsTheOnlyDifference ==
    [][\A args \in FormatArgLists :
          /\ ConsoleLog(args) =>
                /\ out' = Append(out, ConsoleLogLine(args))
                /\ result' = Undefined /\ uncaught' = uncaught
          /\ ConsoleError(args) =>
                /\ out' = Append(out, "ERROR: " \o ConsoleLogLine(args))
                /\ result' = Undefined /\ uncaught' = uncaught
          /\ ConsoleWarn(args) =>
                /\ out' = Append(out, "WARN: " \o ConsoleLogLine(args))
                /\ result' = Undefined /\ uncaught' = uncaught
      ]_vars

(* console.warn("text", 42) has printed the line of console.log("text",    *)
(* 42) behind its prefix                                                   *)
C26_Witness == out = <<"WARN: text 42">>

----------------------------------------------------------------------------
(* C27: performance.getEntries(), getEntriesByType(t) and                  *)
(* getEntriesByName(n) return an empty sequence in every reachable state,  *)
(* for every argument, however many marks and measures were recorded       *)
(* before, and they change no state.                                       *)
C27_EntryListsAreEmpty ==
    [][(\/ PerformanceGetEntries
        \/ \E type \in EntryTypes : PerformanceGetEntriesByType(type)
        \/ \E name \in MeasureNames : PerformanceGetEntriesByName(name)) =>
           /\ result' = EmptyArray
           /\ result'.v = <<>>
           /\ UNCHANGED <<intervalVars, running, pc, out, _timers, _performanceMarks, now,
                          outerVars>>
      ]_vars

(* both marks are recorded, a measure between them has been taken and      *)
(* printed, and the entry list asked for after that is empty               *)
C27_Witness ==
    /\ DOMAIN _performanceMarks = {"start", "end"}
    /\ out # <<>>
    /\ result = EmptyArray

----------------------------------------------------------------------------
(* C30: setInterval never invokes the user callback synchronously. When    *)
(* it returns its handle the callback has been invoked zero times, no      *)
(* callback has been entered, and exactly one one-shot for the handle is   *)
(* pending, due after the delay, for every delay including 0; and an       *)
(* interval that is cancelled before its callback was ever invoked is      *)
(* never invoked, so a clearInterval right after the registration leaves   *)
(* the callback with zero invocations.                                     *)
C30_NoSynchronousInvocation ==
    [][/\ \A d \in Delays :
             SetInterval(FreeCallback, d) =>
                LET id == _intervalId IN
                  /\ returned' = Append(returned, id)
                  /\ calls'[id] = 0
                  /\ running' = running
                  /\ PendingFor(timeouts', id) = 1
                  /\ \E i \in 1..Len(timeouts') :
                        timeouts'[i] = [id |-> id, delay |-> d, due |-> now + d]
       /\ \A h \in DOMAIN active :
             (~active[h] /\ calls[h] = 0) => (calls'[h] = 0 /\ running' # h)
      ]_vars

(* an interval of delay 0 was cancelled before the host ran anything: its  *)
(* one-shot has fired since, other callbacks have run, and its callback    *)
(* has still not been invoked                                              *)
C30_Witness ==
    /\ 1 \in DOMAIN active /\ ~active[1]
    /\ closure[1].delay = 0
    /\ calls[1] = 0
    /\ PendingFor(timeouts, 1) = 0
    /\ 2 \in DOMAIN calls /\ calls[2] > 0

----------------------------------------------------------------------------
(* a one-shot with the delay of the interval is pending for handle h *)
RescheduledWithSameDelay(h) ==
    /\ PendingFor(timeouts, h) = 1
    /\ \E i \in 1..Len(timeouts) :
          timeouts[i].id = h /\ timeouts[i].delay = closure[h].delay

(* C29: liveness. Under a fair host timer, where every pending one-shot    *)
(* fires in the end, an interval that is registered and never cancelled    *)
(* has its user callback invoked infinitely often; and every invocation of *)
(* the callback, one that throws included, leads to a state where the      *)
(* callback has ended and, the interval being still active, another        *)
(* one-shot with the same delay is pending.                                *)
C29_NeverCancelledFiresForever ==
    \A h \in 1..MaxHandles :
       /\ (<>[](h \in DOMAIN active /\ active[h])) => []<>(running = h)
       /\ (running = h) ~>
             (running # h /\ ((h \in DOMAIN active /\ active[h]) => RescheduledWithSameDelay(h)))

(* the callback of the only interval has thrown twice and is being invoked *)
(* once more                                                               *)
C29_Witness ==
    /\ _intervalId = 2
    /\ active[1]
    /\ Len(out) = 2
    /\ running = 1

----------------------------------------------------------------------------
(* the report of a HermesXError of ensureHermesBinary with the given code *)
DownloadFailedText == "Error: Failed to download Hermes binary: "

UnsupportedPlatformText == "Error: Unsupported platform: "

(* C39: ensureHermesBinary returns a path only if a file exists at that    *)
(* path when it returns. On a platform other than darwin and linux it      *)
(* throws UNSUPPORTED_PLATFORM; when a step of the download throws (the    *)
(* fetch, the stream into the temporary file, the extraction, the rename,  *)
(* or chmod on a target that is not there because nothing was extracted)   *)
(* it throws DOWNLOAD_FAILED; in both cases no path is returned and the    *)
(* run ends with that report.                                              *)
C39_ReturnedPathExists ==
    [][(cliPc = "ensure" /\ cliPc' # "ensure") =>
          /\ cliPc' \in {"bundle", "exited"}
          /\ (cliPc' = "bundle") =>
                /\ platform \in SupportedPlatforms
                /\ hermesBinaryPath' = getBinaryPath(platform)
                /\ hermesBinaryPath' \in cacheFiles'
          /\ (cliPc' = "exited") =>
                /\ hermesBinaryPath' = "none"
                /\ exitCode' = 1
                /\ stderr' = <<ErrorLine(IF platform \in SupportedPlatforms
                                         THEN DownloadFailedText
                                         ELSE UnsupportedPlatformText, <<>>)>>
          /\ (platform \notin SupportedPlatforms) => (cliPc' = "exited")
          /\ \A outcome \in {"fetch", "pipe", "extract", "rename"} :
                (EnsureHermesBinary(outcome) /\ getBinaryPath(platform) \notin cacheFiles)
                   => (cliPc' = "exited")
          /\ (EnsureHermesBinary("noentry") /\ getBinaryPath(platform) \notin cacheFiles
                /\ ExtractedPath \notin cacheFiles) => (cliPc' = "exited")
      ]_vars

(* the download failed after the archive was written: the temporary        *)
(* archive is in the cache directory, no binary is, and the run has ended  *)
(* with DOWNLOAD_FAILED                                                    *)
C39_Witness ==
    /\ cliPc = "exited"
    /\ platform = "linux"
    /\ cacheFiles = {TempFile(getBinaryPath("linux"))}
    /\ hermesBinaryPath = "none"
    /\ stderr = <<ErrorLine(DownloadFailedText, <<>>)>>


(* C32: console.time on a label that is already running prints nothing,    *)
(* raises nothing and stores the current clock reading in place of the     *)
(* earlier start; nothing but console.time and console.timeEnd of that     *)
(* label changes the stored start, and timeEnd and timeLog report the      *)
(* clock reading minus the stored start, so what they report is measured   *)
(* from the latest console.time of the label                               *)
C32_RestartOverwritesSilently ==
    [][\A label \in TimerLabels :
          LET key == Key(label) IN
            /\ (ConsoleTime(label) /\ key \in DOMAIN _timers) =>
                  /\ out' = out
                  /\ uncaught' = uncaught
                  /\ DOMAIN _timers' = DOMAIN _timers
                  /\ _timers'[key] = now
                  /\ \A k \in DOMAIN _timers \ {key} : _timers'[k] = _timers[k]
            /\ (key \in DOMAIN _timers /\ key \in DOMAIN _timers'
                   /\ _timers'[key] # _timers[key]) =>
                  \E l \in TimerLabels : Key(l) = key /\ ConsoleTime(l)
            /\ (ConsoleTimeEnd(label) /\ key \in DOMAIN _timers) =>
                  out' = Append(out, key \o ": " \o ToString(now - _timers[key]) \o "ms")
            /\ (ConsoleTimeLog(label, LapData) /\ key \in DOMAIN _timers) =>
                  out' = Append(out, key \o ": " \o ToString(now - _timers[key]) \o "ms lap")
      ]_vars

(* two laps of the label "t", the later one shorter than the earlier one:  *)
(* timeLog keeps the label, so console.time restarted it in between        *)
C32_Witness ==
    /\ out = <<"t: 1ms lap", "t: 0ms lap">>
    /\ "t" \in DOMAIN _timers
    /\ _timers["t"] = now

(* C38: console.time, timeEnd and timeLog take every falsy label (none,    *)
(* undefined, null, the empty string) and the label "default" to the one   *)
(* entry "default" of the label map: time stores the clock reading there,  *)
(* timeEnd reports "default: <delta>ms" and removes it, timeLog reports it *)
(* and keeps it, and no entry with another key than the names given ever   *)
(* appears                                                                 *)
DefaultLabels == {Undefined, Null, Str(""), Str("default")}

C38_FalsyLabelsShareDefault ==
    [][/\ DOMAIN _timers' \subseteq {"default", "t"}
       /\ \A label \in DefaultLabels :
            /\ ConsoleTime(label) =>
                  /\ _timers' = MapSet(_timers, "default", now)
                  /\ out' = out
            /\ ConsoleTimeEnd(label) =>
                  IF "default" \in DOMAIN _timers
                  THEN /\ out' = Append(out, "default: "
                                   \o ToString(now - _timers["default"]) \o "ms")
                       /\ _timers' = MapDelete(_timers, "default")
                  ELSE /\ out' = Append(out, "Timer 'default' does not exist")
                       /\ _timers' = _timers
            /\ ConsoleTimeLog(label, LapData) =>
                  /\ _timers' = _timers
                  /\ IF "default" \in DOMAIN _timers
                     THEN out' = Append(out, "default: "
                                   \o ToString(now - _timers["default"]) \o "ms lap")
                     ELSE out' = Append(out, "Timer 'default' does not exist")
      ]_vars

(* the default label was timed, lapped and ended, one tick apart, while    *)
(* the label "t" is still running                                          *)
C38_Witness ==
    /\ out = <<"default: 1ms lap", "default: 2ms">>
    /\ DOMAIN _timers = {"t"}


(* the elements of a sequence *)
Elements(s) == {s[i] : i \in 1..Len(s)}

(* C33: benchmark(name, fn, N) calls fn N times, one call after the other,  *)
(* with N = 1 when the count is omitted: the call starts with no result and *)
(* no output; while it runs, one call of fn is open and fewer than N have   *)
(* returned; each return of fn adds one element at the end of the results;  *)
(* before the N-th return nothing is printed, and at the N-th return the    *)
(* six report lines (name, iterations, total, average, min, max) are        *)
(* printed in that order and the result holds iterations = N and N results  *)
C33_BenchmarkRunsNTimesInOrder ==
    [][/\ \A name \in BenchNames, n \in IterationArgs :
            BenchmarkBegin(name, n) =>
               /\ bench'.iterations = (IF n = Undefined THEN 1 ELSE n.v)
               /\ bench'.name = name
               /\ bench'.results = <<>>
               /\ out' = out
               /\ result' = result
       /\ InBenchmark => Len(bench.results) < bench.iterations
       /\ (BenchFnReturn /\ Len(bench.results) + 1 < bench.iterations) =>
               /\ InBenchmark'
               /\ bench'.results = Append(bench.results, now - bench.start)
               /\ bench'.iterations = bench.iterations
               /\ out' = out
               /\ result' = result
       /\ (BenchFnReturn /\ Len(bench.results) + 1 = bench.iterations) =>
               /\ ~InBenchmark'
               /\ result'.iterations = bench.iterations
               /\ result'.name = bench.name
               /\ result'.results = Append(bench.results, now - bench.start)
               /\ Len(result'.results) = bench.iterations
               /\ out' = out \o << "Benchmark: " \o bench.name,
                                   "  Iterations: " \o ToString(bench.iterations),
                                   "  Total: " \o ToString(result'.total) \o "ms",
                                   "  Average: " \o ToFixed2(result'.average) \o "ms",
                                   "  Min: " \o ToString(result'.min) \o "ms",
                                   "  Max: " \o ToString(result'.max) \o "ms" >>
      ]_vars

(* the benchmark of the performance test, two iterations of one clock unit  *)
(* each, has returned and printed its report                               *)
C33_Witness ==
    /\ ~InBenchmark
    /\ "results" \in DOMAIN result
    /\ result.iterations = 2
    /\ result.results = <<1, 1>>
    /\ out = << "Benchmark: Math operations", "  Iterations: 2", "  Total: 2ms",
                "  Average: 1.00ms", "  Min: 1ms", "  Max: 1ms" >>

(* C36: an error thrown by the benchmark callback is not trapped: it        *)
(* reaches the caller at once, the benchmark call is over, no report line   *)
(* is printed and no result is returned, and nothing runs after it: no      *)
(* further iteration, no further output, no result                          *)
C36_BenchmarkErrorPropagates ==
    [][/\ \A e \in BenchThrown :
            BenchFnThrow(e) =>
               /\ e \in uncaught'
               /\ ~InBenchmark'
               /\ out' = out
               /\ result' = result
       /\ Halted =>
               /\ UNCHANGED <<out, result, bench, uncaught>>
               /\ ~InBenchmark
      ]_vars

(* the callback threw in its second iteration, after the first took one     *)
(* clock unit: nothing was printed and nothing returned                     *)
C36_Witness ==
    /\ uncaught = {ErrorObject("boom")}
    /\ ~InBenchmark
    /\ out = <<>>
    /\ result = Undefined
    /\ now = MaxClock

(* C37: for every N >= 1, the min and the max that benchmark returns are    *)
(* elements of the results it returns, every element lies between them,     *)
(* and N * min <= total <= N * max                                          *)
C37_MinMaxBoundResults ==
    [][(BenchFnReturn /\ ~InBenchmark') =>
          LET N == bench.iterations
              r == result'
          IN  /\ N >= 1
              /\ r.min \in Elements(r.results)
              /\ r.max \in Elements(r.results)
              /\ \A x \in Elements(r.results) : r.min <= x /\ x <= r.max
              /\ N * r.min <= r.total
              /\ r.total <= N * r.max
      ]_vars

(* a benchmark of two iterations, the first of one clock unit and the       *)
(* second of none, has returned min 0, max 1 and total 1                    *)
C37_Witness ==
    /\ ~InBenchmark
    /\ "results" \in DOMAIN result
    /\ result.results = <<1, 0>>
    /\ result.min = 0
    /\ result.max = 1
    /\ result.total = 1


----------------------------------------------------------------------------
(* C31: intervals are independent. clearInterval(h) on a live handle h      *)
(* clears the flag of h and removes h from the registry and touches nothing *)
(* else: the flag, the registry entry, the closure and the pending          *)
(* one-shots of every other handle are as before, so the other intervals    *)
(* go on firing. And each firing of the one-shot of an active handle enters *)
(* the callback of that handle once: its invocation count goes up by one,   *)
(* no other count changes, only the fired one-shot leaves the pending ones. *)
C31_IntervalsAreIndependent ==
    [][/\ \A h \in DOMAIN active :
            (active[h] /\ ClearInterval(h)) =>
               /\ ~active'[h]
               /\ h \notin _intervals'
               /\ timeouts' = timeouts
               /\ closure' = closure
               /\ calls' = calls
               /\ running' = running
               /\ \A g \in DOMAIN active \ {h} :
                     /\ active'[g] = active[g]
                     /\ (g \in _intervals') = (g \in _intervals)
       /\ \A i \in 1..Len(timeouts) :
            (RepeatBegin(i) /\ active[timeouts[i].id]) =>
               LET h == timeouts[i].id IN
                 /\ running' = h
                 /\ calls' = [calls EXCEPT ![h] = calls[h] + 1]
                 /\ PendingFor(timeouts', h) = PendingFor(timeouts, h) - 1
                 /\ Len(timeouts') = Len(timeouts) - 1
                 /\ \A g \in DOMAIN active \ {h} :
                       PendingFor(timeouts', g) = PendingFor(timeouts, g)
                 /\ active' = active
                 /\ _intervals' = _intervals
                 /\ closure' = closure
      ]_vars

(* the first of two intervals was cancelled before it ever fired; the       *)
(* second is registered, active, has fired once and is firing again         *)
C31_Witness ==
    /\ DOMAIN active = {1, 2}
    /\ ~active[1]
    /\ calls[1] = 0
    /\ _intervals = {2}
    /\ active[2]
    /\ calls[2] = 2
    /\ running = 2

(* no interval is active *)
AllCancelled == \A h \in DOMAIN active : ~active[h]

(* C35: clearInterval leaves the pending one-shot of the handle alone.      *)
(* When a live handle h is cancelled from outside its own callback, one     *)
(* one-shot for h is pending afterwards; when it fires it is removed and    *)
(* nothing else changes; the one-shots pending for a cancelled handle never *)
(* grow in number and a cancelled handle never becomes active again. So,    *)
(* under a fair host timer, a cancelled handle ends up with no one-shot     *)
(* pending for good, and if from some point on every interval is cancelled  *)
(* the pending one-shots become and stay none.                              *)
C35_StaleOneShotDrains ==
    /\ [][/\ \A h \in DOMAIN active :
               /\ (active[h] /\ running # h /\ ClearInterval(h)) =>
                     (PendingFor(timeouts', h) = 1 /\ timeouts' = timeouts)
               /\ (~active[h] /\ FireOf(h)) =>
                     /\ PendingFor(timeouts', h) = PendingFor(timeouts, h) - 1
                     /\ UNCHANGED <<_intervalId, _intervals, active, closure, calls,
                                    count, returned, uncaught, running, pc, out>>
               /\ ~active[h] =>
                     /\ ~active'[h]
                     /\ PendingFor(timeouts', h) <= PendingFor(timeouts, h)
                     /\ PendingFor(timeouts, h) <= 1
         ]_vars
    /\ \A h \in 1..MaxHandles :
          (h \in DOMAIN active /\ ~active[h]) ~> [](PendingFor(timeouts, h) = 0)
    /\ (<>[]AllCancelled) => <>[](timeouts = <<>>)

(* both intervals were cancelled from outside their callbacks: the stale    *)
(* one-shot of each is still pending                                        *)
C35_Witness ==
    /\ DOMAIN active = {1, 2}
    /\ AllCancelled
    /\ PendingFor(timeouts, 1) = 1
    /\ PendingFor(timeouts, 2) = 1
    /\ running = 0


----------------------------------------------------------------------------
(* the state of the polyfill layer that its operations work on *)
layerVars == <<intervalVars, running, pc, out, _timers, _performanceMarks, result, bench>>

(* C34: the file handed to the engine holds the globals, and the engine     *)
(* runs its parts in the order globals, argument injection, user code, each *)
(* once per run: the globals start from the load and set the descriptor to  *)
(* its defaults, the injection starts when the globals have run and writes  *)
(* argv only, user code starts when the injection has run, and no state of  *)
(* the layer changes before user code runs. If the injection does not parse *)
(* the engine ends at the load and runs no part. From the injection on, no  *)
(* step (console, timers, intervals, marks, benchmark, process.exit, the    *)
(* end of the engine) changes argv or env of the process descriptor.        *)
C34_GlobalsThenInjectionThenUser ==
    [][/\ (enginePc' # enginePc) =>
             /\ (enginePc' = "load") =>
                   (enginePc = "none" /\ tmpFiles'[bundlePath'].globals)
             /\ (enginePc' = "globals") => (enginePc = "load")
             /\ (enginePc' = "inject") => (enginePc = "globals")
             /\ (enginePc' = "user") => (enginePc = "inject")
             /\ (enginePc' = "exited") => (enginePc \in {"load", "user"})
             /\ (enginePc = "load" /\ enginePc' = "exited") =>
                   (~InjectionParses(tmpFiles[bundlePath].argsInjection)
                      /\ process' = process)
       /\ EngineGlobals =>
             (enginePc' = "inject"
                /\ process' = [argv |-> <<Hermes, ScriptJs>>, env |-> EmptyMap])
       /\ EngineInject =>
             /\ enginePc' = "user"
             /\ process'.argv = InjectedArgv(tmpFiles[bundlePath].argsInjection)
             /\ process'.env = process.env
       /\ (enginePc # "user") => (UNCHANGED layerVars /\ UNCHANGED uncaught)
       /\ (enginePc \in {"user", "exited"}) => (process' = process)
      ]_vars

(* user code of the bundle of the file a, run with the argument a, has      *)
(* printed a line, timed a label, run an interval callback and asked for    *)
(* the end of the process: the descriptor is as the injection left it       *)
C34_Witness ==
    /\ enginePc = "user"
    /\ out = <<"x">>
    /\ "t" \in DOMAIN _timers
    /\ 1 \in DOMAIN calls /\ calls[1] >= 1
    /\ Halted
    /\ process = [argv |-> <<Hermes, <<"a">>, <<"a">> >>, env |-> EmptyMap]

====
